---- MODULE Spec2Model ----
(***************************************************************************)
(* Zentra: segmented-dictation transcription pipeline.                     *)
(*                                                                         *)
(*   - CircuitBreaker, RetryPolicy, Metrics   (src-tauri/src/orchestrator) *)
(*   - FailoverOrchestrator::transcribe       (src-tauri/src/orchestrator) *)
(*   - SessionStitcher, Stitcher              (src-tauri/src/session)      *)
(*                                                                         *)
(* Time is the monotonic clock read by Instant::now(), in seconds.         *)
(* f32 confidences are modelled in hundredths (0.70 -> 70), durations in   *)
(* hundredths of a second.                                                 *)
(***************************************************************************)
EXTENDS Integers, Sequences, FiniteSets, TLC

VARIABLES
    now,               \* monotonic clock (seconds)
    \* ---- FailoverOrchestrator fields
    given,             \* the provider list handed to FailoverOrchestrator::new
    providers,         \* Vec<ProviderConfig>, sorted by priority in new()
    circuit_breakers,  \* HashMap<String, CircuitBreaker>
    metrics,           \* Metrics { success_counts, failure_counts }
    \* ---- position of the (single, locked) transcribe call
    opc,               \* "idle" | "attempting" | "done"
    ocaller,           \* who holds the orchestrator lock: "none" | "transcribe_audio" | "add_segment"
    idx,               \* index into providers of the provider being attempted
    attempt,           \* `attempt` local of transcribe (u8)
    all_errors,        \* `all_errors` local of transcribe
    oresult,           \* value returned by the last transcribe call
    slept_secs,        \* delay of the last wait_before_retry in this call
    \* ---- history of the current transcribe call
    attempt_log,       \* adapter invocations of this call, in order, with their results
    skipped,           \* providers skipped by their breaker in this call: [provider, at]
    cb0,               \* circuit_breakers when the call started
    metrics0,          \* metrics when the call started
    calls,             \* number of transcribe calls started
    \* ---- standalone CircuitBreaker driven through its public API
    breaker,           \* the breaker
    bhist,             \* results recorded on it: sequence of [res, at]
    blast,             \* last API call on it: [op, allowed, pre, at]
    \* ---- SessionStitcher fields
    current_session_id,\* Option<String>
    segments,          \* Vec<AudioSegment>
    uuid_next,         \* source of fresh Uuid::new_v4 values
    \* ---- position of the (single, locked) session command
    spc,               \* "idle" | "awaiting_orchestrator" | "transcribing"
    pending,           \* add_segment locals while the orchestrator runs
    sresult,           \* value returned by the last session command
    slast,             \* last session command: [op, pre_id, pre_segments, pre_calls, audio, gate]
    sops,              \* number of session commands started
    failed_seq,        \* sequence number of the segment whose transcription failed last, 0 once
                       \* the session has changed
    \* ---- commands in flight, one per client of the invoke handler
    cpc,               \* per client: [at, cmd, audio, env, ord]
    session_lock,      \* holder of the session_stitcher mutex: a client or "none"
    orch_lock,         \* holder of the orchestrator mutex: a client or "none"
    invoked,           \* number of commands invoked
    acquired,          \* number of times the session_stitcher mutex was acquired
    appended_by,       \* for each stored segment, which acquisition of the session_stitcher
                       \* mutex (1st, 2nd, ...) the call that stored it ran under
    \* ---- a function of the core applied on its own
    argument,          \* the call: [fn, arg]
    returned,          \* Option: the value it returned
    \* ---- AudioRecorder and the input streams of the audio host
    recorder,          \* [is_recording, capture: [stream, is_recording, buffer]]
    streams,           \* the input streams that were built and not dropped yet
    stream_next,       \* source of fresh streams
    alast,             \* last AudioRecorder call: [op, device, result, pre, pre_streams]
    aops,              \* number of AudioRecorder calls
    arrived,           \* chunks the callback appended since the last start that succeeded
    \* ---- AppState: the audio-level emitter, and the recording command in progress
    audio_level_flag,  \* AtomicBool the emitter polls
    audio_level_task,  \* Option<JoinHandle<()>>
    tasks,             \* the emitter tasks spawned so far: "running" | "finished" | "aborted"
    command,           \* the recording command being run: [op, todo, handle]
    level_ops,         \* number of recording commands begun
    \* ---- PasteContext and the windows of the desktop
    target_os,         \* the platform the program was built for
    paste_context,     \* [target_hwnd]
    foreground,        \* the window in the foreground, 0 when there is none
    plast,             \* last PasteContext call: [op, zentra_window, foreground, attempt, pre, before]
    pops,              \* number of PasteContext calls
    \* ---- the loop of Stitcher::stitch_transcripts
    stitching          \* [segments, i, full_text, previous_words, all_words, overlap_size,
                       \*  tail_before, kept, result]

ovars == <<given, providers, circuit_breakers, metrics, opc, ocaller, idx, attempt,
           all_errors, oresult, slept_secs, attempt_log, skipped, cb0, metrics0, calls>>
bvars == <<breaker, bhist, blast>>
svars == <<current_session_id, segments, uuid_next, spc, pending, sresult, slast, sops,
           failed_seq>>
cvars == <<cpc, session_lock, orch_lock, invoked, acquired, appended_by>>
fvars == <<argument, returned>>
avars == <<recorder, streams, stream_next, alast, aops, arrived>>
pvars == <<target_os, paste_context, foreground, plast, pops>>
lvars == <<stitching>>
evars == <<audio_level_flag, audio_level_task, tasks, command, level_ops>>
dvars == <<avars, pvars, lvars, evars>>
xvars == <<fvars, dvars>>
vars  == <<now, ovars, bvars, svars, cvars, xvars>>

----------------------------------------------------------------------------
(* Bounds of the model *)

MaxCalls == 4          \* transcribe calls per behaviour
MaxTime == 900         \* the clock stops here
MaxHist == 5           \* results recorded on the standalone breaker
MaxSessionOps == 4     \* session commands per behaviour
MaxAdmissionOps == 3   \* add_segment calls per behaviour at the limits
MaxStitched == 4       \* segments of the sessions handed to the stitcher
MaxInvocations == 4    \* commands invoked per behaviour by the concurrent clients

\* confidences an adapter reports (0.50, 0.70)
Confidences == {50, 70}

----------------------------------------------------------------------------
(* Option<T>: None is the empty sequence, Some(x) the one-element sequence *)

None == << >>
Some(x) == << x >>
IsNone(o) == o = << >>
IsSome(o) == o # << >>
Unwrap(o) == o[1]

U8_MAX == 255

SaturatingAddU8(a, b) == IF a + b > U8_MAX THEN U8_MAX ELSE a + b

----------------------------------------------------------------------------
(* stt/types.rs *)

Err(kind, detail) == [kind |-> kind, detail |-> detail]

NetworkError        == Err("NetworkError", "connection reset")
TimeoutError        == Err("TimeoutError", "")
AudioTooLong        == Err("AudioTooLong", "")
InvalidAudio        == Err("InvalidAudio", "")
AuthenticationError == Err("AuthenticationError", "")
RateLimitError      == Err("RateLimitError", "")
ProviderError(msg)  == Err("ProviderError", msg)
ModelNotFound       == Err("ModelNotFound", "ggml-base.bin")

\* errors an adapter can return
STTErrors ==
    { NetworkError, TimeoutError, AudioTooLong, InvalidAudio, AuthenticationError,
      RateLimitError, ProviderError("HTTP 500"), ModelNotFound }

\* impl Display for STTError (#[error("...")]): the pieces of the message
display(e) ==
    CASE e.kind = "NetworkError"        -> << "Network error: ", e.detail >>
      [] e.kind = "TimeoutError"        -> << "Request timeout" >>
      [] e.kind = "AudioTooLong"        -> << "Audio too long (max 59s for Groq)" >>
      [] e.kind = "InvalidAudio"        -> << "Invalid audio format" >>
      [] e.kind = "AuthenticationError" -> << "Authentication failed" >>
      [] e.kind = "RateLimitError"      -> << "Rate limit exceeded" >>
      [] e.kind = "ProviderError"       -> << "Provider error: ", e.detail >>
      [] e.kind = "ModelNotFound"       -> << "Model not found: ", e.detail >>

is_retryable_with_provider_error(e) ==
    e.kind \in {"NetworkError", "TimeoutError", "RateLimitError", "ProviderError"}

is_retryable(e) == e.kind \in {"NetworkError", "TimeoutError", "RateLimitError"}

Transcript(text, confidence, provider) ==
    [text |-> text, confidence |-> confidence, provider |-> provider]

----------------------------------------------------------------------------
(* orchestrator/circuit_breaker.rs *)

TRIP_THRESHOLD == 3
TRIP_WINDOW == 300
COOLDOWN == 600

Closed == [tag |-> "Closed"]
Open(t) == [tag |-> "Open", tripped_at |-> t]
HalfOpen == [tag |-> "HalfOpen"]

CircuitBreakerNew ==
    [state |-> Closed, failure_count |-> 0, last_failure_time |-> None]

\* is_request_allowed at time t: the breaker afterwards and the returned bool
is_request_allowed_strict(cb, t) ==
    IF cb.state.tag = "Open"
    THEN IF t - cb.state.tripped_at > COOLDOWN
         THEN [cb |-> [cb EXCEPT !.state = HalfOpen], allowed |-> TRUE]
         ELSE [cb |-> cb, allowed |-> FALSE]
    ELSE [cb |-> cb, allowed |-> TRUE]

is_request_allowed(cb, t) ==
    IF cb.state.tag = "Open"
    THEN IF t - cb.state.tripped_at >= COOLDOWN
         THEN [cb |-> [cb EXCEPT !.state = HalfOpen], allowed |-> TRUE]
         ELSE [cb |-> cb, allowed |-> FALSE]
    ELSE [cb |-> cb, allowed |-> TRUE]

record_success_keep_state(cb) ==
    [cb EXCEPT !.failure_count = 0, !.last_failure_time = None]

record_success(cb) ==
    [state |-> Closed, failure_count |-> 0, last_failure_time |-> None]

record_failure_gt_threshold(cb, t) ==
    LET fc == IF IsSome(cb.last_failure_time)
              THEN IF t - Unwrap(cb.last_failure_time) > TRIP_WINDOW
                   THEN 1
                   ELSE SaturatingAddU8(cb.failure_count, 1)
              ELSE 1
    IN  [state |-> IF fc > TRIP_THRESHOLD THEN Open(t) ELSE cb.state,
         failure_count |-> fc,
         last_failure_time |-> Some(t)]

\* a failure on a HalfOpen breaker opens it again
record_failure_reopens(cb, t) ==
    LET fc == IF IsSome(cb.last_failure_time)
              THEN IF t - Unwrap(cb.last_failure_time) > TRIP_WINDOW
                   THEN 1
                   ELSE SaturatingAddU8(cb.failure_count, 1)
              ELSE 1
    IN  [state |-> IF fc >= TRIP_THRESHOLD \/ cb.state = HalfOpen THEN Open(t) ELSE cb.state,
         failure_count |-> fc,
         last_failure_time |-> Some(t)]

record_failure(cb, t) ==
    LET fc == IF IsSome(cb.last_failure_time)
              THEN IF t - Unwrap(cb.last_failure_time) > TRIP_WINDOW
                   THEN 1
                   ELSE SaturatingAddU8(cb.failure_count, 1)
              ELSE 1
    IN  [state |-> IF fc >= TRIP_THRESHOLD THEN Open(t) ELSE cb.state,
         failure_count |-> fc,
         last_failure_time |-> Some(t)]

----------------------------------------------------------------------------
(* orchestrator/retry.rs *)

BASE_DELAY == 2

should_retry_inclusive(max_retries, att, e) ==
    IF att > max_retries THEN FALSE ELSE is_retryable(e)

should_retry(max_retries, att, e) ==
    IF att >= max_retries THEN FALSE ELSE is_retryable(e)

\* A u64 is the sequence of its eight bytes, the least significant first.
U8 == 256

U64_MAX == << 255, 255, 255, 255, 255, 255, 255, 255 >>

\* the u64 of a number below 2^31
u64(n) ==
    << n % U8, (n \div U8) % U8, (n \div (U8 * U8)) % U8, n \div (U8 * U8 * U8),
       0, 0, 0, 0 >>

\* the number of a u64 below 2^31
as_secs(d) == d[1] + U8 * d[2] + U8 * U8 * d[3] + U8 * U8 * U8 * d[4]

RECURSIVE column(_, _, _, _)
\* the sum of the products a[i] * b[k + 1 - i] from the i-th on
column(a, b, k, i) ==
    IF i > 8 THEN 0
    ELSE (IF k + 1 - i \in 1..8 THEN a[i] * b[k + 1 - i] ELSE 0) + column(a, b, k, i + 1)

RECURSIVE widening_mul(_, _, _, _)
\* the sixteen bytes of a * b from the k-th on
widening_mul(a, b, k, carry) ==
    IF k > 16 THEN << >>
    ELSE LET total == column(a, b, k, 1) + carry
         IN  << total % U8 >> \o widening_mul(a, b, k + 1, total \div U8)

checked_mul(a, b) ==
    LET product == widening_mul(a, b, 1, 0)
    IN  IF \E i \in 9..16 : product[i] # 0 THEN None ELSE Some(SubSeq(product, 1, 8))

\* u64::wrapping_mul
wrapping_mul(a, b) == SubSeq(widening_mul(a, b, 1, 0), 1, 8)

\* u64::saturating_mul
saturating_mul(a, b) ==
    LET product == checked_mul(a, b)
    IN  IF product = None THEN U64_MAX ELSE Unwrap(product)

RECURSIVE checked_pow_from(_, _, _)
\* u64::checked_pow, by squaring: acc * base^exp for exp > 0
checked_pow_from(base, exp, acc) ==
    LET multiplied == IF exp % 2 = 1 THEN checked_mul(acc, base) ELSE Some(acc)
        squared == checked_mul(base, base)
    IN  IF multiplied = None THEN None
        ELSE IF exp = 1 THEN multiplied
        ELSE IF squared = None THEN None
        ELSE checked_pow_from(Unwrap(squared), exp \div 2, Unwrap(multiplied))

checked_pow(base, exp) ==
    IF exp = 0 THEN Some(u64(1)) ELSE checked_pow_from(base, exp, u64(1))

\* u64::saturating_pow
saturating_pow(base, exp) ==
    LET power == checked_pow(base, exp)
    IN  IF power = None THEN U64_MAX ELSE Unwrap(power)

RECURSIVE u64_less(_, _, _)
\* a < b, decided from the i-th byte down
u64_less(a, b, i) ==
    IF i = 0 THEN FALSE
    ELSE IF a[i] # b[i] THEN a[i] < b[i]
    ELSE u64_less(a, b, i - 1)

u64_max(a, b) == IF u64_less(a, b, 8) THEN b ELSE a

\* the Duration wait_before_retry(attempt) sleeps, in seconds
delay(att) ==
    LET multiplier == saturating_pow(u64(2), att)
        delay_secs == saturating_mul(u64(BASE_DELAY), multiplier)
    IN  u64_max(delay_secs, u64(1))

\* seconds slept by wait_before_retry(attempt)
wait_before_retry(att) == as_secs(delay(att))

\* wait_before_retry at the attempts a transcribe call retries at, computed once
retry_delays == [att \in 0..3 |-> wait_before_retry(att)]

----------------------------------------------------------------------------
(* orchestrator/metrics.rs *)

MetricsNew == [success_counts |-> << >>, failure_counts |-> << >>]

\* *map.entry(k).or_insert(0) += 1
EntryIncrement(map, k) ==
    IF k \in DOMAIN map
    THEN [map EXCEPT ![k] = @ + 1]
    ELSE [x \in DOMAIN map \cup {k} |-> IF x = k THEN 1 ELSE map[x]]

metrics_record_success(m, id) ==
    [m EXCEPT !.success_counts = EntryIncrement(@, id)]

metrics_record_failure_twice(m, id) ==
    [m EXCEPT !.failure_counts = EntryIncrement(EntryIncrement(@, id), id)]

metrics_record_failure(m, id) ==
    [m EXCEPT !.failure_counts = EntryIncrement(@, id)]

get_success_count(m, id) ==
    IF id \in DOMAIN m.success_counts THEN m.success_counts[id] ELSE 0

get_failure_count(m, id) ==
    IF id \in DOMAIN m.failure_counts THEN m.failure_counts[id] ELSE 0

----------------------------------------------------------------------------
(* orchestrator/mod.rs *)

NoProvidersAvailable == [tag |-> "NoProvidersAvailable"]

AllProvidersFailed_last_only(errs) ==
    [tag |-> "AllProvidersFailed",
     errors |-> IF errs = << >> THEN << >> ELSE << errs[Len(errs)] >>]

AllProvidersFailed(errs) == [tag |-> "AllProvidersFailed", errors |-> errs]

Ok(v) == [tag |-> "Ok", value |-> v]
Error(e) == [tag |-> "Err", error |-> e]

\* an implementation of the STTAdapter trait, given by its name() and by what it
\* can do with one request: return a transcript carrying its name, return one
\* of its errors, or (hangs) not answer within timeout_secs
Adapter(name, texts, confs, errors, hangs) ==
    [name |-> name,
     outcomes |-> { Ok(Transcript(t, c, name)) : t \in texts, c \in confs }
                    \cup { Error(e) : e \in errors }
                    \cup (IF hangs THEN { [tag |-> "Elapsed"] } ELSE {})]

ProviderConfig(id, priority, adapter, max_retries, confidence_threshold) ==
    [id |-> id, priority |-> priority, adapter |-> adapter,
     max_retries |-> max_retries, confidence_threshold |-> confidence_threshold]

OneText == { << "o", "k" >> }

\* provider lists handed to FailoverOrchestrator::new: ids are unique, as in
\* provider_registry.rs, whose retries and thresholds are used; the lists come
\* in orders that new() has to sort, with and without equal priorities
ProviderInputs ==
    { << >>,
      << ProviderConfig("groq", 1, Adapter("Groq", OneText, Confidences, STTErrors, TRUE), 0, 70) >>,
      << ProviderConfig("elevenlabs", 3, Adapter("ElevenLabs", OneText, Confidences, STTErrors, TRUE), 1, 60) >>,
      << ProviderConfig("elevenlabs", 3,
            Adapter("ElevenLabs", OneText, Confidences, {RateLimitError, AuthenticationError}, FALSE), 1, 60),
         ProviderConfig("groq", 1,
            Adapter("Groq", OneText, Confidences, {RateLimitError, AuthenticationError}, FALSE), 0, 70) >>,
      << ProviderConfig("whisper", 2,
            Adapter("Whisper.cpp", OneText, Confidences, {NetworkError, InvalidAudio}, FALSE), 1, 70),
         ProviderConfig("vosk", 2, Adapter("VOSK", OneText, Confidences, {ModelNotFound}, FALSE), 0, 50) >>,
      << ProviderConfig("whisper", 4,
            Adapter("Whisper.cpp", OneText, Confidences, {ProviderError("whisper-cli failed")}, FALSE), 0, 50),
         ProviderConfig("groq", 1, Adapter("Groq", OneText, Confidences, {RateLimitError}, FALSE), 0, 70),
         ProviderConfig("vosk", 1, Adapter("VOSK", OneText, Confidences, {}, TRUE), 0, 60) >> }

InsertByPriority(s, p) ==
    SelectSeq(s, LAMBDA q : q.priority <= p.priority)
        \o << p >> \o SelectSeq(s, LAMBDA q : q.priority > p.priority)

RECURSIVE sort_by_priority_unstable(_)
sort_by_priority_unstable(s) ==
    IF s = << >> THEN << >>
    ELSE LET rest == sort_by_priority_unstable(SubSeq(s, 1, Len(s) - 1))
             p == s[Len(s)]
         IN  SelectSeq(rest, LAMBDA q : q.priority < p.priority)
                 \o << p >> \o SelectSeq(rest, LAMBDA q : q.priority >= p.priority)

\* providers.sort_by_key(|p| p.priority): a stable sort
RECURSIVE sort_by_priority(_)
sort_by_priority(s) ==
    IF s = << >> THEN << >>
    ELSE InsertByPriority(sort_by_priority(SubSeq(s, 1, Len(s) - 1)), s[Len(s)])

ProviderIds(ps) == { ps[i].id : i \in DOMAIN ps }

\* FailoverOrchestrator::new
OrchestratorNew(input) ==
    [providers |-> sort_by_priority(input),
     circuit_breakers |-> [id \in ProviderIds(input) |-> CircuitBreakerNew],
     metrics |-> MetricsNew]

\* try_provider: the adapter call wrapped in tokio::time::timeout
try_provider(raw) ==
    IF raw.tag = "Elapsed" THEN Error(TimeoutError) ELSE raw

confidence_accepted_strict(transcript, p) ==
    transcript.confidence > p.confidence_threshold

\* transcript.confidence >= provider.confidence_threshold
confidence_accepted(transcript, p) ==
    transcript.confidence >= p.confidence_threshold

BreakerOpenError == ProviderError("Circuit breaker open")

LowConfidenceError_as_breaker_open == ProviderError("Circuit breaker open")

LowConfidenceError == ProviderError("Low confidence")

\* head of the `for provider in &self.providers` loop from index i on: skip
\* the providers whose breaker forbids the request, stop at the first allowed
RECURSIVE next_allowed(_, _, _, _, _)
next_allowed(i, cbs, errs, skp, t) ==
    IF i > Len(providers)
    THEN [exhausted |-> TRUE, idx |-> i, cbs |-> cbs, errs |-> errs, skipped |-> skp]
    ELSE LET id == providers[i].id
             r == is_request_allowed(cbs[id], t)
         IN  IF r.allowed
             THEN [exhausted |-> FALSE, idx |-> i,
                   cbs |-> [cbs EXCEPT ![id] = r.cb], errs |-> errs, skipped |-> skp]
             ELSE next_allowed(i + 1, cbs,
                               Append(errs, << id, BreakerOpenError >>),
                               skp \cup {[provider |-> i, at |-> t]}, t)

\* the loop moves on: either the next adapter call is issued or the call returns
MoveOn(adv, mets) ==
    /\ circuit_breakers' = adv.cbs
    /\ metrics' = mets
    /\ all_errors' = adv.errs
    /\ skipped' = adv.skipped
    /\ idx' = adv.idx
    /\ attempt' = 0
    /\ IF adv.exhausted
       THEN /\ opc' = "done"
            /\ oresult' = Some(Error(AllProvidersFailed(adv.errs)))
       ELSE /\ opc' = "attempting"
            /\ oresult' = None

\* transcribe is entered (the caller holds the orchestrator lock) and runs to
\* its first adapter call or to its return
transcribe_begin(caller) ==
    /\ opc = "idle"
    /\ calls < MaxCalls
    /\ calls' = calls + 1
    /\ ocaller' = caller
    /\ cb0' = circuit_breakers
    /\ metrics0' = metrics
    /\ attempt_log' = << >>
    /\ slept_secs' = 0
    /\ IF providers = << >>
       THEN /\ opc' = "done"
            /\ oresult' = Some(Error(NoProvidersAvailable))
            /\ all_errors' = << >>
            /\ skipped' = {}
            /\ idx' = 1
            /\ attempt' = 0
            /\ UNCHANGED <<circuit_breakers, metrics>>
       ELSE MoveOn(next_allowed(1, circuit_breakers, << >>, {}, now), metrics)
    /\ UNCHANGED <<given, providers, now>>

\* the adapter call in flight returns (or times out) and transcribe runs to its
\* next adapter call or to its return
attempt_returns ==
    /\ opc = "attempting"
    /\ \E raw \in providers[idx].adapter.outcomes :
         LET p == providers[idx]
             r == try_provider(raw)
             failed == [circuit_breakers EXCEPT ![p.id] = record_failure(@, now)]
         IN  /\ attempt_log' = Append(attempt_log,
                                  [provider |-> idx, attempt |-> attempt, result |-> r])
             /\ IF r.tag = "Ok"
                THEN IF confidence_accepted(r.value, p)
                     THEN /\ circuit_breakers' =
                                [circuit_breakers EXCEPT ![p.id] = record_success(@)]
                          /\ metrics' = metrics_record_success(metrics, p.id)
                          /\ oresult' = Some(Ok(r.value))
                          /\ opc' = "done"
                          /\ UNCHANGED <<idx, attempt, all_errors, skipped, slept_secs>>
                     ELSE /\ MoveOn(next_allowed(idx + 1, failed,
                                        Append(all_errors, << p.id, LowConfidenceError >>),
                                        skipped, now),
                                    metrics_record_failure(metrics, p.id))
                          /\ UNCHANGED slept_secs
                ELSE IF should_retry(p.max_retries, attempt, r.error)
                     THEN /\ slept_secs' = retry_delays[attempt]
                          /\ attempt' = attempt + 1
                          /\ UNCHANGED <<circuit_breakers, metrics, oresult, opc, idx,
                                         all_errors, skipped>>
                     ELSE /\ MoveOn(next_allowed(idx + 1, failed,
                                        Append(all_errors, << p.id, r.error >>),
                                        skipped, now),
                                    metrics_record_failure(metrics, p.id))
                          /\ UNCHANGED slept_secs
    /\ UNCHANGED <<given, providers, ocaller, cb0, metrics0, calls, now>>

\* transcribe has returned to its caller, which drops the orchestrator guard
transcribe_end ==
    /\ opc = "done"
    /\ opc' = "idle"
    /\ ocaller' = "none"
    /\ idx' = 1
    /\ attempt' = 0
    /\ all_errors' = << >>
    /\ oresult' = None
    /\ slept_secs' = 0
    /\ attempt_log' = << >>
    /\ skipped' = {}
    /\ cb0' = circuit_breakers
    /\ metrics0' = metrics
    /\ UNCHANGED <<given, providers, circuit_breakers, metrics, calls, now>>

----------------------------------------------------------------------------
(* lib.rs: the transcribe_audio command *)

TranscribeAudio ==
    /\ ocaller = "none"
    /\ transcribe_begin("transcribe_audio")
    /\ UNCHANGED <<bvars, xvars, svars, cvars>>

AttemptReturns ==
    /\ attempt_returns
    /\ UNCHANGED <<bvars, xvars, svars, cvars>>

TranscribeAudioReturn ==
    /\ ocaller = "transcribe_audio"
    /\ transcribe_end
    /\ UNCHANGED <<bvars, xvars, svars, cvars>>

\* clock granularity: the clock is observed every trip window
TickSecs == TRIP_WINDOW

\* the monotonic clock advances
Tick ==
    /\ now + TickSecs <= MaxTime
    /\ now' = now + TickSecs
    /\ UNCHANGED <<ovars, bvars, xvars, svars, cvars>>

----------------------------------------------------------------------------

InitOrchestrator(input) ==
    LET o == OrchestratorNew(input)
    IN  /\ given = input
        /\ providers = o.providers
        /\ circuit_breakers = o.circuit_breakers
        /\ metrics = o.metrics
        /\ opc = "idle"
        /\ ocaller = "none"
        /\ idx = 1
        /\ attempt = 0
        /\ all_errors = << >>
        /\ oresult = None
        /\ slept_secs = 0
        /\ attempt_log = << >>
        /\ skipped = {}
        /\ cb0 = o.circuit_breakers
        /\ metrics0 = o.metrics
        /\ calls = 0

InitBreaker ==
    /\ breaker = CircuitBreakerNew
    /\ bhist = << >>
    /\ blast = [op |-> "new", allowed |-> TRUE, pre |-> CircuitBreakerNew, at |-> 0]

\* the clients of the invoke handler
Clients == {"c1", "c2", "c3"}

IdleClient == [at |-> "idle", cmd |-> "none", audio |-> None, env |-> None, ord |-> 0]

\* no command in flight, both mutexes free
InitClients ==
    /\ cpc = [c \in Clients |-> IdleClient]
    /\ session_lock = "none"
    /\ orch_lock = "none"
    /\ invoked = 0
    /\ acquired = 0
    /\ appended_by = << >>

----------------------------------------------------------------------------
(* audio/buffer.rs, audio/capture.rs, audio/mod.rs.  A buffer holds its       *)
(* samples as the chunks they arrived in, and their number; durations are in  *)
(* hundredths of a second.                                                    *)

\* the n-th slice of len samples a stream's callback was handed; stream 0 is
\* audio that came from no stream
Chunk(stream, n, len) == [stream |-> stream, n |-> n, len |-> len]

\* AudioBuffer, with the energy metrics of its samples (in units of 0.0001)
AudioBuffer(len, sample_rate, channels, duration_secs, rms, peak, speech_ratio) ==
    [samples |-> IF len = 0 THEN << >> ELSE << Chunk(0, 1, len) >>,
     len |-> len, sample_rate |-> sample_rate, channels |-> channels,
     duration_secs |-> duration_secs,
     rms |-> rms, peak |-> peak, speech_ratio |-> speech_ratio]

\* AudioBuffer::new; what the device records is speech
AudioBufferNew(sample_rate, channels) ==
    AudioBuffer(0, sample_rate, channels, 0, 800, 4000, 9000)

update_duration(buffer) ==
    [buffer EXCEPT !.duration_secs =
        IF buffer.sample_rate = 0 THEN 0
        ELSE (buffer.len * 100)
                \div (buffer.sample_rate * (IF buffer.channels > 1 THEN buffer.channels ELSE 1))]

\* the samples are cleared and the cached duration is left as it was
clear_keeps_duration(buffer) == [buffer EXCEPT !.samples = << >>, !.len = 0]

clear(buffer) == [buffer EXCEPT !.samples = << >>, !.len = 0, !.duration_secs = 0]

append(buffer, data) ==
    update_duration([buffer EXCEPT !.samples = Append(@, data), !.len = @ + data.len])

AudioCaptureNew ==
    [stream |-> None, is_recording |-> FALSE, buffer |-> AudioBufferNew(16000, 1)]

\* what the audio host answers to a start: no input device, no default input
\* configuration, a sample format other than i16 and f32, a stream that cannot
\* be built or played, or a playing stream of the device's rate and channels
Device(outcome, sample_rate, channels) ==
    [outcome |-> outcome, sample_rate |-> sample_rate, channels |-> channels]

Devices ==
    { Device(outcome, sample_rate, channels) :
        outcome \in {"no_device", "config_error", "unsupported_format",
                     "build_error", "play_error", "ok"},
        sample_rate \in {16000, 48000},
        channels \in {1, 2} }

Unit == "()"

\* the result of a call on the capture: its new state, the value returned, the
\* stream the call built and the streams it dropped
Captured(capture, result, built, dropped) ==
    [capture |-> capture, result |-> result, built |-> built, dropped |-> dropped]

\* AudioCapture::start without its first test
capture_start_unguarded(capture, device, id) ==
    IF device.outcome = "no_device"
    THEN Captured(capture, Error("No input device available"), None, {})
    ELSE IF device.outcome = "config_error"
    THEN Captured(capture, Error("default_input_config"), None, {})
    ELSE LET reset == [capture EXCEPT !.buffer =
                          clear([@ EXCEPT !.sample_rate = device.sample_rate,
                                          !.channels = device.channels])]
         IN  CASE device.outcome = "unsupported_format" ->
                    Captured(reset, Error("Unsupported sample format"), None, {})
               [] device.outcome = "build_error" ->
                    Captured(reset, Error("build_input_stream"), None, {})
               [] device.outcome = "play_error" ->
                    Captured(reset, Error("play"), Some(id), {id})
               [] device.outcome = "ok" ->
                    Captured([reset EXCEPT !.stream = Some(id), !.is_recording = TRUE],
                             Ok(Unit), Some(id),
                             { capture.stream[k] : k \in DOMAIN capture.stream })

\* AudioCapture::start
capture_start(capture, device, id) ==
    IF capture.is_recording
    THEN Captured(capture, Error("Already recording"), None, {})
    ELSE capture_start_unguarded(capture, device, id)

\* AudioCapture::stop cloning the buffer after it cleared it
capture_stop_clears_first(capture) ==
    IF ~capture.is_recording
    THEN Captured(capture, Error("Not recording"), None, {})
    ELSE Captured([capture EXCEPT !.stream = None, !.is_recording = FALSE,
                                  !.buffer = clear(@)],
                  Ok(clear(capture.buffer)), None,
                  { capture.stream[k] : k \in DOMAIN capture.stream })

\* AudioCapture::stop
capture_stop(capture) ==
    IF ~capture.is_recording
    THEN Captured(capture, Error("Not recording"), None, {})
    ELSE Captured([capture EXCEPT !.stream = None, !.is_recording = FALSE,
                                  !.buffer = clear(@)],
                  Ok(capture.buffer), None,
                  { capture.stream[k] : k \in DOMAIN capture.stream })

AudioRecorderNew == [is_recording |-> FALSE, capture |-> AudioCaptureNew]

\* the result of a call on the recorder
Recorded(rec, call) ==
    [recorder |-> rec, result |-> call.result, built |-> call.built,
     dropped |-> call.dropped]

\* AudioRecorder::start_recording without its first test
start_recording_unguarded(rec, device, id) ==
    LET call == capture_start_unguarded(rec.capture, device, id)
    IN  Recorded([rec EXCEPT !.capture = call.capture,
                             !.is_recording = call.result.tag = "Ok" \/ @],
                 call)

\* AudioRecorder::start_recording
start_recording(rec, device, id) ==
    IF rec.is_recording
    THEN Recorded(rec, Captured(rec.capture, Error("Already recording"), None, {}))
    ELSE LET call == capture_start(rec.capture, device, id)
         IN  Recorded([rec EXCEPT !.capture = call.capture,
                                  !.is_recording = call.result.tag = "Ok"],
                      call)

\* AudioRecorder::stop_recording
stop_recording(rec) ==
    IF ~rec.is_recording
    THEN Recorded(rec, Captured(rec.capture, Error("Not recording"), None, {}))
    ELSE LET call == capture_stop(rec.capture)
         IN  Recorded([rec EXCEPT !.capture = call.capture,
                                  !.is_recording = (call.result.tag # "Ok")],
                      call)

\* a recorder that was never started, no stream
InitRecorder ==
    /\ recorder = AudioRecorderNew
    /\ streams = {}
    /\ stream_next = 1
    /\ alast = [op |-> "new", device |-> None, result |-> Ok(Unit),
                pre |-> AudioRecorderNew, pre_streams |-> {}]
    /\ aops = 0
    /\ arrived = << >>

----------------------------------------------------------------------------
(* paste.rs: PasteContext. Window handles are small integers, 0 being no     *)
(* window; a reason is the sequence of the strings it is made of.             *)

PasteAttemptPasted == [pasted |-> TRUE, reason |-> None]

fallback(reason) == [pasted |-> FALSE, reason |-> Some(reason)]

\* the builds: cfg(target_os = ..)
TargetOs == {"windows", "macos", "linux"}

\* PasteContext::default; the field exists in the Windows build only
PasteContextDefault == [target_hwnd |-> None]

is_same_window(a, b) == a # 0 /\ b # 0 /\ a = b

\* hwnd is what GetForegroundWindow answers
capture_target_window(hwnd, zentra_window) ==
    IF hwnd = 0 \/ is_same_window(hwnd, zentra_window) THEN None ELSE Some(hwnd)

capture_target(context, os, hwnd, zentra_window) ==
    IF os = "windows"
    THEN [context EXCEPT !.target_hwnd = capture_target_window(hwnd, zentra_window)]
    ELSE context

\* class_name.trim().to_ascii_lowercase() on the class names of the model
NormalizedClass ==
    [ Edit |-> "edit",
      ConsoleWindowClass |-> "consolewindowclass",
      ApplicationFrameWindow |-> "applicationframewindow" ]

is_non_paste_window_class(class_name) ==
    NormalizedClass[class_name] \in
        {"consolewindowclass", "cascadia_hosting_window_class",
         "virtualconsoleclass", "applicationframewindow"}

INPUTS_LEN == 4        \* inputs: [INPUT; 4]

\* what the desktop answers during an attempt: the foreground window at its
\* beginning, whether SetForegroundWindow succeeded and the foreground window
\* after it, the class name of the target, whether it has a focused control,
\* the number of inputs SendInput inserted
Desktop(current, restored, refocused, class_name, focused, sent) ==
    [current |-> current, restored |-> restored, refocused |-> refocused,
     class_name |-> class_name, focused |-> focused, sent |-> sent]

try_auto_paste_windows(target_hwnd, zentra_window, desktop) ==
    IF target_hwnd = None \/ target_hwnd = Some(0)
    THEN fallback(<<"no_target_window">>)
    ELSE LET target == Unwrap(target_hwnd)
             own == is_same_window(desktop.current, zentra_window)
             current_hwnd == IF own THEN desktop.refocused ELSE desktop.current
         IN  IF desktop.current = 0 THEN fallback(<<"no_foreground_window">>)
             ELSE IF own /\ ~desktop.restored THEN fallback(<<"restore_focus_failed">>)
             ELSE IF current_hwnd # target THEN fallback(<<"focus_changed">>)
             ELSE IF /\ desktop.class_name # None
                     /\ is_non_paste_window_class(Unwrap(desktop.class_name))
             THEN fallback(<<"unsupported_target_class:", Unwrap(desktop.class_name)>>)
             ELSE IF ~desktop.focused THEN fallback(<<"no_focused_control">>)
             ELSE IF desktop.sent = INPUTS_LEN THEN PasteAttemptPasted
             ELSE fallback(<<"send_input_incomplete">>)

\* what osascript answers: "success", "failed" with or without text on its
\* standard error, or "error" when it could not be run
try_auto_paste_macos(output) ==
    CASE output.status = "success" -> PasteAttemptPasted
      [] output.status = "failed" ->
            IF output.stderr = ""
            THEN fallback(<<"macos_applescript_failed_accessibility">>)
            ELSE fallback(<<"macos_applescript_failed: ", output.stderr>>)
      [] output.status = "error" ->
            fallback(<<"macos_applescript_error: ", output.stderr>>)

\* the result of an attempt: the context after it and the PasteAttempt
PasteOutcome(context, paste_attempt) == [context |-> context, attempt |-> paste_attempt]

\* PasteContext::try_auto_paste with the target left in the context
try_auto_paste_keeps_target(context, os, zentra_window, desktop, output) ==
    PasteOutcome(context,
              CASE os = "windows" ->
                     try_auto_paste_windows(context.target_hwnd, zentra_window, desktop)
                [] os = "macos" -> try_auto_paste_macos(output)
                [] OTHER -> fallback(<<"unsupported_platform">>))

\* PasteContext::try_auto_paste
try_auto_paste(context, os, zentra_window, desktop, output) ==
    CASE os = "windows" ->
           PasteOutcome([context EXCEPT !.target_hwnd = None],
                     try_auto_paste_windows(context.target_hwnd, zentra_window, desktop))
      [] os = "macos" -> PasteOutcome(context, try_auto_paste_macos(output))
      [] OTHER -> PasteOutcome(context, fallback(<<"unsupported_platform">>))

\* a call on the context as it is remembered: the handle it was given, the
\* foreground window at its beginning, the PasteAttempt it returned
PasteCalled(op, zentra_window, hwnd, paste_attempt) ==
    [op |-> op, zentra_window |-> zentra_window, foreground |-> hwnd,
     attempt |-> paste_attempt]

NoPasteCall ==
    [op |-> "default", zentra_window |-> 0, foreground |-> 0, attempt |-> None,
     pre |-> PasteContextDefault, before |-> PasteCalled("default", 0, 0, None)]

\* the Windows build with a fresh context and no window in the foreground
InitPasteContext ==
    /\ target_os = "windows"
    /\ paste_context = PasteContextDefault
    /\ foreground = 0
    /\ plast = NoPasteCall
    /\ pops = 0

\* the locals of stitch_transcripts before its loop
Stitching(segs) ==
    [segments |-> segs, i |-> 1, full_text |-> << >>, previous_words |-> << >>,
     all_words |-> << >>, overlap_size |-> 0, tail_before |-> << >>,
     kept |-> << >>, result |-> None]

\* stitch_transcripts is not running
InitNoStitching == stitching = Stitching(<< >>)

\* a recording command: the steps it still has to take and the JoinHandle
\* start_audio_level_loop holds between its spawn and its store
RecordingCommand(op, todo, handle) == [op |-> op, todo |-> todo, handle |-> handle]

\* AppState as run() builds it: no emitter task, the flag down
InitNoEmitter ==
    /\ audio_level_flag = FALSE
    /\ audio_level_task = None
    /\ tasks = << >>
    /\ command = RecordingCommand("none", << >>, None)
    /\ level_ops = 0

InitDevices == InitRecorder /\ InitPasteContext /\ InitNoStitching /\ InitNoEmitter

\* a call of the function fn with the argument arg
Call(fn, arg) == [fn |-> fn, arg |-> arg]

\* no function applied on its own
InitNoCall ==
    /\ argument = Call("none", None)
    /\ returned = None

InitOthers == InitNoCall /\ InitDevices

InitSession ==
    /\ current_session_id = None
    /\ segments = << >>
    /\ uuid_next = 1
    /\ spc = "idle"
    /\ pending = None
    /\ sresult = None
    /\ slast = [op |-> "new", pre_id |-> None, pre_segments |-> << >>, pre_calls |-> 0,
                audio |-> None, gate |-> FALSE]
    /\ sops = 0
    /\ failed_seq = 0

\* the orchestrator alone, driven by the transcribe_audio command
Init ==
    /\ now = 0
    /\ \E input \in ProviderInputs : InitOrchestrator(input)
    /\ InitBreaker
    /\ InitSession
    /\ InitClients
    /\ InitOthers

Next ==
    \/ TranscribeAudio
    \/ AttemptReturns
    \/ TranscribeAudioReturn
    \/ Tick

Spec == Init /\ [][Next]_vars

\* Groq, which answers or fails with a network error, before Whisper.cpp,
\* which answers
ProbeProviders ==
    << ProviderConfig("groq", 1, Adapter("Groq", OneText, {70}, {NetworkError}, FALSE), 0, 70),
       ProviderConfig("whisper", 2, Adapter("Whisper.cpp", OneText, {70}, {}, FALSE), 1, 70) >>

\* the breaker three failures at time 0 leave
Tripped == record_failure(record_failure(record_failure(CircuitBreakerNew, 0), 0), 0)

\* the orchestrator after three transcribe calls at time 0 in which Groq
\* failed and Whisper.cpp answered: Groq's breaker is Open
InitProbe ==
    LET o == OrchestratorNew(ProbeProviders)
        cbs == [o.circuit_breakers EXCEPT !["groq"] = Tripped]
        counted == [success_counts |-> [id \in {"whisper"} |-> 3],
                    failure_counts |-> [id \in {"groq"} |-> 3]]
    IN  /\ now = 0
        /\ given = ProbeProviders
        /\ providers = o.providers
        /\ circuit_breakers = cbs
        /\ metrics = counted
        /\ opc = "idle"
        /\ ocaller = "none"
        /\ idx = 1
        /\ attempt = 0
        /\ all_errors = << >>
        /\ oresult = None
        /\ slept_secs = 0
        /\ attempt_log = << >>
        /\ skipped = {}
        /\ cb0 = cbs
        /\ metrics0 = counted
        /\ calls = 0
        /\ InitBreaker
        /\ InitSession
        /\ InitClients
        /\ InitOthers

SpecProbe == InitProbe /\ [][Next]_vars

MaxFairCalls == 2      \* transcribe calls per behaviour whose return is awaited

TranscribeAudioFair == calls < MaxFairCalls /\ TranscribeAudio

NextFair ==
    \/ TranscribeAudioFair
    \/ AttemptReturns
    \/ TranscribeAudioReturn
    \/ Tick

\* every adapter call is awaited under tokio::time::timeout, so the call in
\* flight returns or is cut off; the command then returns to its caller
SpecFair ==
    /\ Init
    /\ [][NextFair]_vars
    /\ WF_vars(AttemptReturns)
    /\ WF_vars(TranscribeAudioReturn)

----------------------------------------------------------------------------
(* session/stitcher.rs: a text is a sequence of characters *)

\* the letters of the texts: a to z and e with acute accent
LowerCase == << "a", "b", "c", "d", "e", "f", "g", "h", "i", "j", "k", "l", "m",
                "n", "o", "p", "q", "r", "s", "t", "u", "v", "w", "x", "y", "z", "é" >>
UpperCase == << "A", "B", "C", "D", "E", "F", "G", "H", "I", "J", "K", "L", "M",
                "N", "O", "P", "Q", "R", "S", "T", "U", "V", "W", "X", "Y", "Z", "É" >>

is_whitespace(c) == c \in {" ", "\t", "\n"}
is_alphabetic(c) == \E k \in DOMAIN LowerCase : c = LowerCase[k] \/ c = UpperCase[k]
char_to_uppercase(c) ==
    IF \E k \in DOMAIN LowerCase : c = LowerCase[k]
    THEN UpperCase[CHOOSE k \in DOMAIN LowerCase : c = LowerCase[k]]
    ELSE c
char_to_lowercase(c) ==
    IF \E k \in DOMAIN UpperCase : c = UpperCase[k]
    THEN LowerCase[CHOOSE k \in DOMAIN UpperCase : c = UpperCase[k]]
    ELSE c

to_lowercase(w) == [k \in DOMAIN w |-> char_to_lowercase(w[k])]

is_punct(c) == c \in {".", "!", "?", ","}

RECURSIVE collapse_from(_, _, _)
collapse_from(text, i, in_space) ==
    IF i > Len(text) THEN << >>
    ELSE IF is_whitespace(text[i])
         THEN (IF in_space THEN << >> ELSE << " " >>) \o collapse_from(text, i + 1, TRUE)
         ELSE << text[i] >> \o collapse_from(text, i + 1, FALSE)

collapse_spaces(text) == collapse_from(text, 1, FALSE)

RECURSIVE ensure_from(_, _)
ensure_from(text, i) ==
    IF i > Len(text) THEN << >>
    ELSE << text[i] >>
           \o (IF /\ text[i] \in {".", "!", "?", ","}
                  /\ i < Len(text)
                  /\ ~is_whitespace(text[i + 1])
               THEN << " " >> ELSE << >>)
           \o ensure_from(text, i + 1)

ensure_space_after_punct(text) == ensure_from(text, 1)

RECURSIVE remove_from(_, _)
remove_from(text, i) ==
    IF i > Len(text) THEN << >>
    ELSE (IF is_whitespace(text[i]) /\ i < Len(text) /\ is_punct(text[i + 1])
          THEN << >> ELSE << text[i] >>)
           \o remove_from(text, i + 1)

remove_space_before_punct(text) == remove_from(text, 1)

RECURSIVE capitalize_from(_, _, _)
capitalize_from(text, i, capitalize_next) ==
    IF i > Len(text) THEN << >>
    ELSE IF capitalize_next /\ is_alphabetic(text[i])
         THEN << char_to_uppercase(text[i]) >> \o capitalize_from(text, i + 1, FALSE)
         ELSE << text[i] >>
                \o capitalize_from(text, i + 1,
                       capitalize_next \/ text[i] \in {".", "!", "?"})

\* capitalize_next starts false: the first sentence is left as it is
capitalize_sentences_not_first(text) == capitalize_from(text, 1, FALSE)

capitalize_sentences(text) == capitalize_from(text, 1, TRUE)

RECURSIVE trim_start(_)
trim_start(text) ==
    IF text # << >> /\ is_whitespace(text[1]) THEN trim_start(Tail(text)) ELSE text

RECURSIVE trim_end(_)
trim_end(text) ==
    IF text # << >> /\ is_whitespace(text[Len(text)])
    THEN trim_end(SubSeq(text, 1, Len(text) - 1)) ELSE text

trim(text) == trim_end(trim_start(text))

\* the spaces are not collapsed before the punctuation passes
normalize_text_uncollapsed(text) ==
    LET spaced == ensure_space_after_punct(text)
        cleaned == remove_space_before_punct(spaced)
        capitalized == capitalize_sentences(cleaned)
    IN  trim(collapse_spaces(capitalized))

normalize_text(text) ==
    LET collapsed == collapse_spaces(text)
        spaced == ensure_space_after_punct(collapsed)
        cleaned == remove_space_before_punct(spaced)
        capitalized == capitalize_sentences(cleaned)
    IN  trim(collapse_spaces(capitalized))

\* str::split_whitespace: the maximal runs of non-whitespace characters
RECURSIVE split_from(_, _, _)
split_from(text, i, word) ==
    IF i > Len(text)
    THEN IF word = << >> THEN << >> ELSE << word >>
    ELSE IF is_whitespace(text[i])
         THEN (IF word = << >> THEN << >> ELSE << word >>) \o split_from(text, i + 1, << >>)
         ELSE split_from(text, i + 1, Append(word, text[i]))

split_whitespace(text) == split_from(text, 1, << >>)

\* words.join(" ")
RECURSIVE join_words(_)
join_words(words) ==
    IF words = << >> THEN << >>
    ELSE IF Len(words) = 1 THEN words[1]
         ELSE words[1] \o << " " >> \o join_words(Tail(words))

Min(a, b) == IF a <= b THEN a ELSE b

\* the last n elements of s, fewer if s is shorter
LastN(s, n) == SubSeq(s, Len(s) - Min(n, Len(s)) + 1, Len(s))

\* the loop returns at the smallest n that matches instead of the largest
detect_overlap_smallest(previous, current) ==
    LET max_check == Min(3, Min(Len(previous), Len(current)))
        matches == { n \in 1..max_check :
                       [k \in 1..n |-> to_lowercase(LastN(previous, n)[k])]
                         = [k \in 1..n |-> to_lowercase(current[k])] }
    IN  IF matches = {} THEN 0 ELSE CHOOSE n \in matches : \A m \in matches : n <= m

detect_overlap(previous, current) ==
    LET max_check == Min(3, Min(Len(previous), Len(current)))
        matches == { n \in 1..max_check :
                       [k \in 1..n |-> to_lowercase(LastN(previous, n)[k])]
                         = [k \in 1..n |-> to_lowercase(current[k])] }
    IN  IF matches = {} THEN 0 ELSE CHOOSE n \in matches : \A m \in matches : m <= n

SegmentNotTranscribed(id) == [tag |-> "SegmentNotTranscribed", id |-> id]

RECURSIVE stitch_from_forgets_previous(_, _, _, _)
stitch_from_forgets_previous(segs, i, full_text, previous_words) ==
    IF i > Len(segs) THEN Ok(normalize_text(full_text))
    ELSE IF IsNone(segs[i].transcript)
         THEN Error(SegmentNotTranscribed(segs[i].id))
         ELSE LET all_words == split_whitespace(Unwrap(segs[i].transcript).text)
                  overlap_size ==
                      IF previous_words # << >> /\ all_words # << >>
                      THEN detect_overlap(previous_words, all_words)
                      ELSE 0
                  words == SubSeq(all_words, overlap_size + 1, Len(all_words))
                  text1 == IF full_text # << >> /\ words # << >>
                           THEN Append(full_text, " ") ELSE full_text
                  text2 == IF words # << >> THEN text1 \o join_words(words) ELSE text1
              IN  stitch_from_forgets_previous(segs, i + 1, text2, LastN(words, 3))

\* the body of the loop with previous_words assigned whatever words holds
stitch_words_assigns_always(all_words, full_text, previous_words) ==
    LET overlap_size ==
            IF previous_words # << >> /\ all_words # << >>
            THEN detect_overlap(previous_words, all_words)
            ELSE 0
        words == SubSeq(all_words, overlap_size + 1, Len(all_words))
        text1 == IF full_text # << >> /\ words # << >>
                 THEN Append(full_text, " ") ELSE full_text
        text2 == IF words # << >> THEN text1 \o join_words(words) ELSE text1
    IN  [overlap_size |-> overlap_size, words |-> words, full_text |-> text2,
         previous_words |-> LastN(words, 3)]

\* the body of the loop of stitch_transcripts for a segment of the words
\* all_words: the overlap found, the words left, the locals after it
stitch_words(all_words, full_text, previous_words) ==
    LET overlap_size ==
            IF previous_words # << >> /\ all_words # << >>
            THEN detect_overlap(previous_words, all_words)
            ELSE 0
        words == SubSeq(all_words, overlap_size + 1, Len(all_words))
        text1 == IF full_text # << >> /\ words # << >>
                 THEN Append(full_text, " ") ELSE full_text
        text2 == IF words # << >> THEN text1 \o join_words(words) ELSE text1
    IN  [overlap_size |-> overlap_size, words |-> words, full_text |-> text2,
         previous_words |-> IF words # << >> THEN LastN(words, 3) ELSE previous_words]

\* the loop of stitch_transcripts from segment i on
RECURSIVE stitch_from(_, _, _, _)
stitch_from(segs, i, full_text, previous_words) ==
    IF i > Len(segs) THEN Ok(normalize_text(full_text))
    ELSE IF IsNone(segs[i].transcript)
         THEN Error(SegmentNotTranscribed(segs[i].id))
         ELSE LET step == stitch_words(split_whitespace(Unwrap(segs[i].transcript).text),
                                       full_text, previous_words)
              IN  stitch_from(segs, i + 1, step.full_text, step.previous_words)

stitch_transcripts(segs) ==
    IF segs = << >> THEN Ok(<< >>) ELSE stitch_from(segs, 1, << >>, << >>)

----------------------------------------------------------------------------
(* session/mod.rs, session/segment.rs, session/progress.rs *)

MAX_SEGMENT_DURATION_SECS == 5900   \* 59.0 s, in hundredths of a second
MAX_SEGMENTS == 100

NoActiveSession == [tag |-> "NoActiveSession"]
EmptySession == [tag |-> "EmptySession"]
SegmentTooLong(duration, max) == [tag |-> "SegmentTooLong", duration |-> duration, max |-> max]
SegmentLimitReached(max) == [tag |-> "SegmentLimitReached", max |-> max]
StitchError(msg) == [tag |-> "StitchError", msg |-> msg]
TranscriptionFailed(reason) == [tag |-> "TranscriptionFailed", reason |-> reason]

\* buffers handed to add_segment: one second of speech, three seconds of
\* silence, sixty seconds of speech
AudioInputs ==
    { AudioBuffer(16000, 16000, 1, 100, 800, 4000, 9000),
      AudioBuffer(48000, 16000, 1, 300, 0, 0, 0),
      AudioBuffer(960000, 16000, 1, 6000, 800, 4000, 9000) }

AudioSegment(id, duration_secs, sequence_number) ==
    [id |-> id, transcript |-> None, sequence_number |-> sequence_number,
     duration_secs |-> duration_secs]

set_transcript_dropped(segment, transcript) == segment

set_transcript(segment, transcript) == [segment EXCEPT !.transcript = Some(transcript)]

derive_duration_secs_cached_only(audio) == audio.duration_secs

derive_duration_secs(audio) ==
    IF audio.duration_secs > 5
    THEN audio.duration_secs
    ELSE IF audio.sample_rate <= 0
         THEN 0
         ELSE (audio.len * 100)
                 \div (audio.sample_rate * (IF audio.channels > 1 THEN audio.channels ELSE 1))

audio_energy_metrics(audio) ==
    IF audio.len = 0
    THEN [rms |-> 0, peak |-> 0, speech_ratio |-> 0]
    ELSE [rms |-> audio.rms, peak |-> audio.peak, speech_ratio |-> audio.speech_ratio]

is_probable_silence_any(m) == m.rms < 15 \/ m.peak < 100 \/ m.speech_ratio < 150

is_probable_silence(m) == m.rms < 15 /\ m.peak < 100 /\ m.speech_ratio < 150

format_stitch_error(err) == << "Segment not transcribed: ", err.id >>

Reason(msg, details) == [msg |-> msg, details |-> details]

\* format!("{}: {}", provider, error) for each entry, joined by " | "
RECURSIVE join_entries(_, _)
join_entries(errors, i) ==
    IF i > Len(errors) THEN << >>
    ELSE (IF i > 1 THEN << " | " >> ELSE << >>)
            \o << errors[i][1], ": " >> \o display(errors[i][2])
            \o join_entries(errors, i + 1)

\* the kind of the first entry decides, instead of any entry of each kind in turn
map_orchestrator_error_first_entry(err) ==
    IF err.tag = "NoProvidersAvailable"
    THEN Reason("Groq API key missing or invalid. Configure a valid key in Setup/Settings.", << >>)
    ELSE LET errors == err.errors
             kind == errors[1][2].kind
         IN  IF kind = "AuthenticationError"
             THEN Reason("Groq authentication failed. Check if your API key is valid.", << >>)
             ELSE IF kind = "RateLimitError"
             THEN Reason("Groq rate limit reached. Please wait and try again.", << >>)
             ELSE IF kind = "TimeoutError"
             THEN Reason("Groq request timed out. Check your connection and try again.", << >>)
             ELSE Reason("Groq transcription failed. ", join_entries(errors, 1))

map_orchestrator_error(err) ==
    IF err.tag = "NoProvidersAvailable"
    THEN Reason("Groq API key missing or invalid. Configure a valid key in Setup/Settings.", << >>)
    ELSE LET errors == err.errors
             any(kind) == \E k \in DOMAIN errors : errors[k][2].kind = kind
         IN  IF any("AuthenticationError")
             THEN Reason("Groq authentication failed. Check if your API key is valid.", << >>)
             ELSE IF any("RateLimitError")
             THEN Reason("Groq rate limit reached. Please wait and try again.", << >>)
             ELSE IF any("TimeoutError")
             THEN Reason("Groq request timed out. Check your connection and try again.", << >>)
             ELSE Reason("Groq transcription failed. ", join_entries(errors, 1))

\* self.segments.iter().map(|s| s.duration_secs).sum()
RECURSIVE total_duration(_)
total_duration(segs) ==
    IF segs = << >> THEN 0 ELSE segs[1].duration_secs + total_duration(Tail(segs))

\* confidence_sum over the segments that have a transcript
RECURSIVE confidence_sum(_)
confidence_sum(segs) ==
    IF segs = << >> THEN 0
    ELSE (IF IsSome(segs[1].transcript) THEN Unwrap(segs[1].transcript).confidence ELSE 0)
            + confidence_sum(Tail(segs))

\* the distinct transcript providers of the segments, in order of first use
RECURSIVE providers_used_from(_, _, _)
providers_used_from(segs, i, used) ==
    IF i > Len(segs) THEN used
    ELSE IF /\ IsSome(segs[i].transcript)
            /\ \A k \in DOMAIN used : used[k] # Unwrap(segs[i].transcript).provider
         THEN providers_used_from(segs, i + 1, Append(used, Unwrap(segs[i].transcript).provider))
         ELSE providers_used_from(segs, i + 1, used)

StitchedResult(segs, full_text) ==
    LET confidence_count == Len(SelectSeq(segs, LAMBDA g : IsSome(g.transcript)))
    IN  [full_text |-> full_text,
         total_duration_secs |-> total_duration(segs),
         segment_count |-> Len(segs),
         confidence_avg |-> IF confidence_count = 0 THEN 0
                            ELSE confidence_sum(segs) \div confidence_count,
         providers_used |-> providers_used_from(segs, 1, << >>)]

SessionProgress(segs) ==
    LET stitched == stitch_transcripts(segs)
    IN  [segment_count |-> Len(segs),
         total_duration_secs |-> total_duration(segs),
         current_text |-> IF segs = << >> \/ stitched.tag = "Err" THEN << >>
                          ELSE stitched.value]

SegmentResult(segment_id, transcript) ==
    [segment_id |-> segment_id, transcript |-> transcript, is_final |-> FALSE]

SilentTranscript == Transcript(<< >>, 0, "SilenceGate")

\* the session fields as start_session leaves them
SessionStarted_keeps_segments(session_id) ==
    [current_session_id |-> Some(session_id), segments |-> segments]

SessionStarted(session_id) ==
    [current_session_id |-> Some(session_id), segments |-> << >>]

\* the session fields as a successful finalize_session leaves them
SessionCleared_keeps_segments ==
    [current_session_id |-> None, segments |-> segments]

SessionCleared ==
    [current_session_id |-> None, segments |-> << >>]

\* self.segments.len() as u32 + 1
next_sequence_number_zero_based(segs) == Len(segs)

next_sequence_number(segs) == Len(segs) + 1

\* the checks of add_segment before the segment is created: the error it
\* returns, if any
add_segment_precheck_duration_first(session_id, segs, audio) ==
    IF IsNone(session_id)
    THEN Some(NoActiveSession)
    ELSE IF derive_duration_secs(audio) > MAX_SEGMENT_DURATION_SECS
    THEN Some(SegmentTooLong(derive_duration_secs(audio), MAX_SEGMENT_DURATION_SECS))
    ELSE IF Len(segs) >= MAX_SEGMENTS
    THEN Some(SegmentLimitReached(MAX_SEGMENTS))
    ELSE None

add_segment_precheck_ge(session_id, segs, audio) ==
    IF IsNone(session_id)
    THEN Some(NoActiveSession)
    ELSE IF Len(segs) >= MAX_SEGMENTS
    THEN Some(SegmentLimitReached(MAX_SEGMENTS))
    ELSE IF derive_duration_secs(audio) >= MAX_SEGMENT_DURATION_SECS
    THEN Some(SegmentTooLong(derive_duration_secs(audio), MAX_SEGMENT_DURATION_SECS))
    ELSE None

add_segment_precheck(session_id, segs, audio) ==
    IF IsNone(session_id)
    THEN Some(NoActiveSession)
    ELSE IF Len(segs) >= MAX_SEGMENTS
    THEN Some(SegmentLimitReached(MAX_SEGMENTS))
    ELSE IF derive_duration_secs(audio) > MAX_SEGMENT_DURATION_SECS
    THEN Some(SegmentTooLong(derive_duration_secs(audio), MAX_SEGMENT_DURATION_SECS))
    ELSE None

\* values of the environment variable ZENTRA_ENABLE_SILENCE_GATE: unset, or a string
EnvValues ==
    { None, Some(<< "1" >>), Some(<< "Y", "e", "s", " " >>), Some(<< "T", "R", "U", "E" >>),
      Some(<< "0" >>), Some(<< "o", "n" >>), Some(<< >>) }

silence_gate_enabled(env) ==
    IF IsNone(env) THEN FALSE
    ELSE to_lowercase(trim(Unwrap(env)))
            \in { << "1" >>, << "t", "r", "u", "e" >>, << "y", "e", "s" >> }

\* a session command is entered: the caller holds the session lock
Command(op, audio, gate) ==
    /\ spc = "idle"
    /\ sops < MaxSessionOps
    /\ sops' = sops + 1
    /\ slast' = [op |-> op, pre_id |-> current_session_id,
                 pre_segments |-> segments, pre_calls |-> calls,
                 audio |-> audio, gate |-> gate]

start_session ==
    /\ Command("start_session", None, FALSE)
    /\ LET session_id == uuid_next
           started == SessionStarted(session_id)
       IN  /\ uuid_next' = uuid_next + 1
           /\ current_session_id' = started.current_session_id
           /\ segments' = started.segments
           /\ sresult' = Some(Ok(session_id))
           /\ failed_seq' = 0
    /\ UNCHANGED <<spc, pending, now, ovars, bvars, xvars>>

StartSession ==
    /\ start_session
    /\ UNCHANGED cvars

\* add_segment(audio), with the environment variable read as env, up to its
\* return or to the point where it awaits the orchestrator
add_segment(audio, env) ==
    /\ Command("add_segment", Some(audio), silence_gate_enabled(env))
    /\ LET effective_duration_secs == derive_duration_secs(audio)
           sequence_number == next_sequence_number(segments)
           segment == AudioSegment(uuid_next, effective_duration_secs, sequence_number)
           silent_transcript == SilentTranscript
           refused == add_segment_precheck(current_session_id, segments, audio)
       IN  IF IsSome(refused)
           THEN /\ sresult' = Some(Error(Unwrap(refused)))
                /\ UNCHANGED <<current_session_id, segments, uuid_next, spc, pending, ovars,
                               failed_seq>>
           ELSE IF silence_gate_enabled(env) /\ is_probable_silence(audio_energy_metrics(audio))
           THEN /\ segments' = Append(segments, set_transcript(segment, silent_transcript))
                /\ sresult' = Some(Ok(SegmentResult(segment.id, silent_transcript)))
                /\ uuid_next' = uuid_next + 1
                /\ failed_seq' = 0
                /\ UNCHANGED <<current_session_id, spc, pending, ovars>>
           ELSE /\ spc' = "awaiting_orchestrator"
                /\ pending' = Some(segment)
                /\ uuid_next' = uuid_next + 1
                /\ sresult' = None
                /\ UNCHANGED <<current_session_id, segments, failed_seq, ovars>>
    /\ UNCHANGED <<now, bvars, xvars>>

\* add_segment gets the orchestrator lock it awaited and enters transcribe
add_segment_locks ==
    /\ spc = "awaiting_orchestrator"
    /\ ocaller = "none"
    /\ transcribe_begin("add_segment")
    /\ spc' = "transcribing"
    /\ UNCHANGED <<current_session_id, segments, uuid_next, pending, sresult, slast, sops,
                   failed_seq>>

AddSegmentLock ==
    /\ add_segment_locks
    /\ UNCHANGED <<bvars, xvars, cvars>>

AddSegment ==
    /\ \E audio \in AudioInputs, env \in EnvValues : add_segment(audio, env)
    /\ UNCHANGED cvars

\* the match on the orchestrator's result that ends add_segment: the segments
\* and the value returned
add_segment_finish_keeps_failed(segs, segment, transcript_result) ==
    IF transcript_result.tag = "Ok"
    THEN [segments |-> Append(segs, set_transcript(segment, transcript_result.value)),
          result |-> Ok(SegmentResult(segment.id, transcript_result.value))]
    ELSE [segments |-> Append(segs, segment),
          result |-> Error(TranscriptionFailed(map_orchestrator_error(transcript_result.error)))]

add_segment_finish(segs, segment, transcript_result) ==
    IF transcript_result.tag = "Ok"
    THEN [segments |-> Append(segs, set_transcript(segment, transcript_result.value)),
          result |-> Ok(SegmentResult(segment.id, transcript_result.value))]
    ELSE [segments |-> segs,
          result |-> Error(TranscriptionFailed(map_orchestrator_error(transcript_result.error)))]

\* the orchestrator has returned to add_segment
add_segment_returns ==
    /\ spc = "transcribing"
    /\ ocaller = "add_segment"
    /\ LET transcript_result == oresult[1]
           segment == Unwrap(pending)
           finish == add_segment_finish(segments, segment, transcript_result)
       IN  /\ transcribe_end
           /\ segments' = finish.segments
           /\ sresult' = Some(finish.result)
           /\ failed_seq' = IF transcript_result.tag = "Ok" THEN 0 ELSE segment.sequence_number
    /\ spc' = "idle"
    /\ pending' = None
    /\ UNCHANGED <<current_session_id, uuid_next, slast, sops, bvars, xvars>>

AddSegmentReturn ==
    /\ add_segment_returns
    /\ UNCHANGED cvars

finalize_session ==
    /\ Command("finalize_session", None, FALSE)
    /\ IF IsNone(current_session_id)
       THEN /\ sresult' = Some(Error(NoActiveSession))
            /\ UNCHANGED <<current_session_id, segments>>
       ELSE IF segments = << >>
       THEN /\ sresult' = Some(Error(EmptySession))
            /\ UNCHANGED <<current_session_id, segments>>
       ELSE LET stitched == stitch_transcripts(segments)
            IN  IF stitched.tag = "Err"
                THEN /\ sresult' = Some(Error(StitchError(format_stitch_error(stitched.error))))
                     /\ UNCHANGED <<current_session_id, segments>>
                ELSE /\ sresult' = Some(Ok(StitchedResult(segments, stitched.value)))
                     /\ current_session_id' = SessionCleared.current_session_id
                     /\ segments' = SessionCleared.segments
    /\ failed_seq' = IF segments' = segments THEN failed_seq ELSE 0
    /\ UNCHANGED <<uuid_next, spc, pending, now, ovars, bvars, xvars>>

FinalizeSession ==
    /\ finalize_session
    /\ UNCHANGED cvars

\* get_progress ending the way finalize_session does
get_progress_clears ==
    /\ Command("get_progress", None, FALSE)
    /\ sresult' = Some(Ok(SessionProgress(segments)))
    /\ current_session_id' = SessionCleared.current_session_id
    /\ segments' = SessionCleared.segments
    /\ UNCHANGED <<uuid_next, spc, pending, now, ovars, bvars, xvars, failed_seq>>

get_progress ==
    /\ Command("get_progress", None, FALSE)
    /\ sresult' = Some(Ok(SessionProgress(segments)))
    /\ UNCHANGED <<current_session_id, segments, uuid_next, spc, pending, now, ovars, bvars, xvars,
                   failed_seq>>

GetProgress ==
    /\ get_progress
    /\ UNCHANGED cvars

SessionTexts ==
    { << "p", "e", "d", "i", "r", " ", "u", "m" >>,
      << "u", "m", " ", "c", "a", "f", "e", "." >> }

\* the providers of the session runs: a remote provider that answers or is
\* rate limited, and a local fallback that answers or rejects the audio
SessionProviders ==
    << ProviderConfig("whisper", 4,
          Adapter("Whisper.cpp", { << "U", "m", " ", "b", "o", "l", "o" >> }, {50},
                  {InvalidAudio}, FALSE), 0, 50),
       ProviderConfig("groq", 1,
          Adapter("Groq", SessionTexts, {70}, {RateLimitError}, FALSE), 0, 70) >>

InitSessionRun ==
    /\ now = 0
    /\ InitOrchestrator(SessionProviders)
    /\ InitBreaker
    /\ InitSession
    /\ InitClients
    /\ InitOthers

NextSession ==
    \/ StartSession
    \/ AddSegment
    \/ AddSegmentLock
    \/ AttemptReturns
    \/ AddSegmentReturn
    \/ FinalizeSession
    \/ GetProgress
    \/ Tick

SpecSession == InitSessionRun /\ [][NextSession]_vars

----------------------------------------------------------------------------
(* add_segment at its limits: buffers at the duration and energy thresholds, *)
(* sessions that are empty or one segment short of max_segments              *)

\* a buffer of speech and a buffer at the silence thresholds
Speech(len, sample_rate, channels, duration_secs) ==
    AudioBuffer(len, sample_rate, channels, duration_secs, 800, 4000, 9000)
Quiet(rms, peak, speech_ratio) ==
    AudioBuffer(16000, 16000, 1, 0, rms, peak, speech_ratio)

\* duration_secs is the cached duration: 0 when the buffer was deserialized
\* (serde skips the field), otherwise whatever its producer left there
BoundaryInputs ==
    { Speech(944000, 16000, 1, 5900),      \* 59.0 s, cached
      Speech(944160, 16000, 1, 5901),      \* 59.01 s, cached
      Speech(944000, 16000, 1, 0),         \* 59.0 s of samples, nothing cached
      Speech(944160, 16000, 1, 0),         \* 59.01 s of samples, nothing cached
      Speech(1888320, 16000, 2, 5),        \* 59.01 s of stereo samples, 0.05 s cached
      Speech(960000, 16000, 1, 6),         \* 60 s of samples, 0.06 s cached
      Speech(960000, 0, 1, 0),             \* sample_rate 0
      Speech(944160, 16000, 0, 0),         \* channels 0
      AudioBuffer(0, 16000, 1, 0, 0, 0, 0),\* no samples
      Quiet(14, 99, 149),
      Quiet(15, 99, 149),
      Quiet(14, 100, 149),
      Quiet(14, 99, 150) }

SilentBuffer == AudioBuffer(48000, 16000, 1, 300, 0, 0, 0)

\* the segments of a session after n add_segment calls that were silence-gated
GatedSegments(n) ==
    [i \in 1..n |->
        set_transcript(AudioSegment(i + 1, derive_duration_secs(SilentBuffer), i),
                       SilentTranscript)]

\* the session after start_session and n silence-gated add_segment calls
InitSessionFilled(n) ==
    /\ current_session_id = Some(1)
    /\ segments = GatedSegments(n)
    /\ uuid_next = n + 2
    /\ spc = "idle"
    /\ pending = None
    /\ sops = 0
    /\ failed_seq = 0
    /\ IF n = 0
       THEN /\ sresult = Some(Ok(1))
            /\ slast = [op |-> "start_session", pre_id |-> None, pre_segments |-> << >>,
                        pre_calls |-> 0, audio |-> None, gate |-> FALSE]
       ELSE /\ sresult = Some(Ok(SegmentResult(n + 1, SilentTranscript)))
            /\ slast = [op |-> "add_segment", pre_id |-> Some(1),
                        pre_segments |-> GatedSegments(n - 1),
                        pre_calls |-> 0, audio |-> Some(SilentBuffer), gate |-> TRUE]

\* one remote provider that answers or is rate limited
AdmissionProviders ==
    << ProviderConfig("groq", 1, Adapter("Groq", OneText, {70}, {RateLimitError}, FALSE), 0, 70) >>

InitAdmission ==
    /\ now = 0
    /\ InitOrchestrator(AdmissionProviders)
    /\ InitBreaker
    /\ \E n \in {0, MAX_SEGMENTS - 1} : InitSessionFilled(n)
    /\ InitClients
    /\ InitOthers

AdmitSegment ==
    /\ sops < MaxAdmissionOps
    /\ \E audio \in BoundaryInputs, env \in EnvValues : add_segment(audio, env)
    /\ UNCHANGED cvars

NextAdmission ==
    \/ AdmitSegment
    \/ AddSegmentLock
    \/ AttemptReturns
    \/ AddSegmentReturn

SpecAdmission == InitAdmission /\ [][NextAdmission]_vars

----------------------------------------------------------------------------
(* finalize_session and get_progress on sessions whose segments are          *)
(* transcribed, silence-gated or transcribed as an empty text                *)

\* transcripts a stored segment can carry
StoredTranscripts ==
    { Transcript(t, 70, "Groq") : t \in SessionTexts \cup { << >> } }
       \cup { Transcript(<< "U", "m", " ", "b", "o", "l", "o" >>, 50, "Whisper.cpp"),
              SilentTranscript }

\* the segments of a session after the add_segment calls that stored ts
StoredSegments(ts) ==
    [i \in DOMAIN ts |-> set_transcript(AudioSegment(i + 1, 100, i), ts[i])]

InitStitch ==
    /\ now = 0
    /\ InitOrchestrator(SessionProviders)
    /\ InitBreaker
    /\ current_session_id = Some(1)
    /\ \E n \in 1..MaxStitched : \E ts \in [1..n -> StoredTranscripts] :
         /\ segments = StoredSegments(ts)
         /\ uuid_next = n + 2
    /\ spc = "idle"
    /\ pending = None
    /\ sresult = None
    /\ slast = [op |-> "new", pre_id |-> None, pre_segments |-> << >>, pre_calls |-> 0,
                audio |-> None, gate |-> FALSE]
    /\ sops = 0
    /\ failed_seq = 0
    /\ InitClients
    /\ InitOthers

NextStitch ==
    \/ FinalizeSession
    \/ GetProgress

SpecStitch == InitStitch /\ [][NextStitch]_vars

----------------------------------------------------------------------------
(* lib.rs: commands invoked concurrently.  Each command awaits the mutex of  *)
(* the state it works on, runs under the guard and drops it when it returns. *)

\* Mutex::lock().await completes when nobody holds the mutex
lock_available_always(holder) == TRUE

lock_available(holder) == holder = "none"

Request(cmd, audio, env) == [cmd |-> cmd, audio |-> audio, env |-> env]

\* what the clients invoke: a segment of speech, a segment of silence with the
\* silence gate enabled, and the commands that take no argument
Requests ==
    { Request("add_audio_segment", Some(AudioBuffer(16000, 16000, 1, 0, 800, 4000, 9000)), None),
      Request("add_audio_segment", Some(SilentBuffer), Some(<< "1" >>)),
      Request("get_session_progress", None, None),
      Request("transcribe_audio", None, None),
      Request("update_settings", None, None) }

SessionCommands == {"add_audio_segment", "get_session_progress"}

At(c, where) == [cpc EXCEPT ![c].at = where]

\* client c invokes a command, which starts by awaiting a mutex
Invoke(c) ==
    /\ cpc[c].at = "idle"
    /\ invoked < MaxInvocations
    /\ invoked' = invoked + 1
    /\ \E r \in Requests :
         cpc' = [cpc EXCEPT ![c] =
                    [at |-> IF r.cmd \in SessionCommands
                            THEN "awaiting_session" ELSE "awaiting_orchestrator",
                     cmd |-> r.cmd, audio |-> r.audio, env |-> r.env, ord |-> 0]]
    /\ UNCHANGED <<now, ovars, bvars, xvars, svars, session_lock, orch_lock, acquired, appended_by>>

\* state.session_stitcher.lock().await completes for c
LockSession(c) ==
    /\ cpc[c].at = "awaiting_session"
    /\ lock_available(session_lock)
    /\ session_lock' = c
    /\ acquired' = acquired + 1
    /\ cpc' = [cpc EXCEPT ![c].at = "in_session", ![c].ord = acquired + 1]
    /\ UNCHANGED <<now, ovars, bvars, xvars, svars, orch_lock, invoked, appended_by>>

\* the segments grew by one: the call that holds the session guard stored it
AppendedBy(c) ==
    appended_by' = IF Len(segments') = Len(segments) + 1
                   THEN Append(appended_by, cpc[c].ord)
                   ELSE IF segments' = segments THEN appended_by ELSE << >>

\* c returns from its session command and drops the session guard
ReturnFromSession(c) ==
    /\ session_lock' = "none"
    /\ cpc' = [cpc EXCEPT ![c] = IdleClient]

\* c, holding the session guard, runs its command up to its return or to the
\* point where add_segment awaits the orchestrator mutex
RunSession(c) ==
    /\ cpc[c].at = "in_session"
    /\ IF cpc[c].cmd = "get_session_progress"
       THEN /\ get_progress
            /\ ReturnFromSession(c)
       ELSE /\ add_segment(Unwrap(cpc[c].audio), cpc[c].env)
            /\ IF spc' = "idle"
               THEN ReturnFromSession(c)
               ELSE /\ cpc' = At(c, "awaiting_orchestrator")
                    /\ UNCHANGED session_lock
    /\ AppendedBy(c)
    /\ UNCHANGED <<orch_lock, invoked, acquired>>

\* the orchestrator's lock().await (blocking_lock() in apply_runtime_config)
\* completes for c
LockOrchestrator(c) ==
    /\ cpc[c].at = "awaiting_orchestrator"
    /\ lock_available(orch_lock)
    /\ orch_lock' = c
    /\ cpc' = At(c, "locked_orchestrator")
    /\ UNCHANGED <<now, ovars, bvars, xvars, svars, session_lock, invoked, acquired, appended_by>>

\* the providers and the metrics are replaced and the breakers are kept
replace_orchestrator_keeps_breakers ==
    LET o == OrchestratorNew(given)
    IN  /\ opc = "idle"
        /\ providers' = o.providers
        /\ metrics' = o.metrics
        /\ metrics0' = o.metrics
        /\ UNCHANGED <<given, circuit_breakers, cb0, opc, ocaller, idx, attempt, all_errors,
                       oresult, slept_secs, attempt_log, skipped, calls>>

\* *orchestrator = FailoverOrchestrator::from_env()
replace_orchestrator ==
    LET o == OrchestratorNew(given)
    IN  /\ opc = "idle"
        /\ providers' = o.providers
        /\ circuit_breakers' = o.circuit_breakers
        /\ metrics' = o.metrics
        /\ cb0' = o.circuit_breakers
        /\ metrics0' = o.metrics
        /\ UNCHANGED <<given, opc, ocaller, idx, attempt, all_errors, oresult, slept_secs,
                       attempt_log, skipped, calls>>

\* c, holding the orchestrator guard, calls transcribe, or replaces the
\* orchestrator and drops the guard
UseOrchestrator(c) ==
    /\ cpc[c].at = "locked_orchestrator"
    /\ IF cpc[c].cmd = "update_settings"
       THEN /\ replace_orchestrator
            /\ orch_lock' = "none"
            /\ cpc' = [cpc EXCEPT ![c] = IdleClient]
            /\ UNCHANGED <<now, svars>>
       ELSE /\ IF cpc[c].cmd = "add_audio_segment"
               THEN add_segment_locks
               ELSE /\ ocaller = "none"
                    /\ transcribe_begin("transcribe_audio")
                    /\ UNCHANGED svars
            /\ cpc' = At(c, "in_transcribe")
            /\ UNCHANGED orch_lock
    /\ UNCHANGED <<bvars, xvars, session_lock, invoked, acquired, appended_by>>

\* the adapter call of the transcribe call of c returns
ClientAttemptReturns(c) ==
    /\ cpc[c].at = "in_transcribe"
    /\ attempt_returns
    /\ UNCHANGED <<bvars, xvars, svars, cvars>>

\* transcribe returns to c, which drops the orchestrator guard; add_segment
\* goes on to its return, where the session guard is dropped as well
ReturnFromTranscribe(c) ==
    /\ cpc[c].at = "in_transcribe"
    /\ orch_lock' = "none"
    /\ cpc' = [cpc EXCEPT ![c] = IdleClient]
    /\ IF cpc[c].cmd = "add_audio_segment"
       THEN /\ add_segment_returns
            /\ session_lock' = "none"
            /\ AppendedBy(c)
       ELSE /\ ocaller = "transcribe_audio"
            /\ transcribe_end
            /\ UNCHANGED <<bvars, xvars, svars, session_lock, appended_by>>
    /\ UNCHANGED <<invoked, acquired>>

\* the application with a session started and no command in flight
InitConcurrent ==
    /\ now = 0
    /\ InitOrchestrator(AdmissionProviders)
    /\ InitBreaker
    /\ InitSessionFilled(0)
    /\ InitClients
    /\ InitOthers

NextConcurrent ==
    \E c \in Clients :
        \/ Invoke(c)
        \/ LockSession(c)
        \/ RunSession(c)
        \/ LockOrchestrator(c)
        \/ UseOrchestrator(c)
        \/ ClientAttemptReturns(c)
        \/ ReturnFromTranscribe(c)

SpecConcurrent == InitConcurrent /\ [][NextConcurrent]_vars

\* the six commands and the configuration update invoked side by side.
\* Fairness: a command that can take its
\* next step takes it (the runtime polls every task that is ready, the
\* adapter call is awaited under a timeout), and a mutex that is free is
\* handed to a command that awaits it (tokio's Mutex queues its waiters).
MaxLockInvocations == 3    \* commands invoked per behaviour

\* Groq, not retried, which answers or is cut off by the timeout
LockProviders ==
    << ProviderConfig("groq", 1, Adapter("Groq", OneText, {70}, {}, TRUE), 0, 70) >>

\* what the clients invoke: a segment of speech and the commands that take
\* no argument
LockRequests ==
    { Request("add_audio_segment", Some(AudioBuffer(16000, 16000, 1, 0, 800, 4000, 9000)), None),
      Request("finalize_recording_session", None, None),
      Request("get_session_progress", None, None),
      Request("start_recording_session", None, None),
      Request("transcribe_audio", None, None),
      Request("update_settings", None, None) }

SessionLockCommands ==
    SessionCommands \cup {"start_recording_session", "finalize_recording_session"}

\* client c invokes a command, which starts by awaiting a mutex
InvokeCommand(c) ==
    /\ cpc[c].at = "idle"
    /\ invoked < MaxLockInvocations
    /\ invoked' = invoked + 1
    /\ \E r \in LockRequests :
         cpc' = [cpc EXCEPT ![c] =
                    [at |-> IF r.cmd \in SessionLockCommands
                            THEN "awaiting_session" ELSE "awaiting_orchestrator",
                     cmd |-> r.cmd, audio |-> r.audio, env |-> r.env, ord |-> 0]]
    /\ UNCHANGED <<now, ovars, bvars, xvars, svars, session_lock, orch_lock, acquired, appended_by>>

\* c, holding the session guard, runs add_audio_segment or get_session_progress
RunSessionCommand(c) ==
    /\ cpc[c].cmd \in SessionCommands
    /\ RunSession(c)

\* c, holding the session guard, runs start_recording_session or
\* finalize_recording_session to its return
RunStartOrFinalize(c) ==
    /\ cpc[c].at = "in_session"
    /\ cpc[c].cmd \in SessionLockCommands \ SessionCommands
    /\ IF cpc[c].cmd = "start_recording_session" THEN start_session ELSE finalize_session
    /\ ReturnFromSession(c)
    /\ AppendedBy(c)
    /\ UNCHANGED <<orch_lock, invoked, acquired>>

\* the application with a session started and no command in flight
InitLocks ==
    /\ now = 0
    /\ InitOrchestrator(LockProviders)
    /\ InitBreaker
    /\ InitSessionFilled(0)
    /\ InitClients
    /\ InitOthers

NextLocks ==
    \E c \in Clients :
        \/ InvokeCommand(c)
        \/ LockSession(c)
        \/ RunSessionCommand(c)
        \/ RunStartOrFinalize(c)
        \/ LockOrchestrator(c)
        \/ UseOrchestrator(c)
        \/ ClientAttemptReturns(c)
        \/ ReturnFromTranscribe(c)

\* the step of RunSessionCommand(c) or RunStartOrFinalize(c), by where it
\* leaves c: returned, or awaiting the orchestrator mutex
SessionCommandRuns(c) ==
    /\ cpc[c].at = "in_session"
    /\ cpc' \in { [cpc EXCEPT ![c] = IdleClient], At(c, "awaiting_orchestrator") }

SpecLocks ==
    /\ InitLocks
    /\ [][NextLocks]_vars
    /\ \A c \in Clients :
          /\ WF_cpc(LockSession(c))
          /\ WF_cpc(LockOrchestrator(c))
          /\ WF_cpc(SessionCommandRuns(c))
          /\ WF_cpc(UseOrchestrator(c))
          /\ WF_attempt_log(ClientAttemptReturns(c))
          /\ WF_cpc(ReturnFromTranscribe(c))

----------------------------------------------------------------------------
(* stt/groq.rs, stt/elevenlabs.rs: the WAV payload of an upload.  A payload is *)
(* its header, field by field with each field's width in bytes, and the       *)
(* number of 16-bit samples that follow it.                                   *)

TARGET_SAMPLE_RATE == 16000
TARGET_CHANNELS == 1
U16 == 65536

Max(a, b) == IF a >= b THEN a ELSE b

Field(name, bytes, value) == [name |-> name, bytes |-> bytes, value |-> value]

\* the bytes both adapters write, for the channels, sample rate and samples given
wav_bytes(channels, sample_rate, samples_len) ==
    [header |-> << Field("RIFF", 4, "RIFF"),
                   Field("file_size", 4, 36 + samples_len * 2),
                   Field("WAVE", 4, "WAVE"),
                   Field("fmt ", 4, "fmt "),
                   Field("fmt_size", 4, 16),
                   Field("format", 2, 1),
                   Field("channels", 2, channels),
                   Field("sample_rate", 4, sample_rate),
                   Field("byte_rate", 4, sample_rate * channels * 2),
                   Field("block_align", 2, (channels * 2) % U16),
                   Field("bits_per_sample", 2, 16),
                   Field("data", 4, "data"),
                   Field("data_size", 4, samples_len * 2) >>,
     samples_len |-> samples_len]

\* length of downmix_to_mono's result
downmix_to_mono(samples_len, channels) ==
    IF channels <= 1 THEN samples_len ELSE samples_len \div channels

\* length of resample_linear's result; round() is to the nearest, halves up
resample_linear(input_len, source_rate, target_rate) ==
    IF input_len = 0 THEN 0
    ELSE IF source_rate = target_rate THEN input_len
    ELSE Max((2 * input_len * target_rate + source_rate) \div (2 * source_rate), 1)

\* GroqAdapter::to_wav_bytes
groq_to_wav_bytes(audio) ==
    LET sample_rate == Max(audio.sample_rate, 1)
        channels == Max(audio.channels, 1)
    IN  IF audio.len = 0 THEN Error(InvalidAudio)
        ELSE LET mono == downmix_to_mono(audio.len, channels)
                 normalized == resample_linear(mono, sample_rate, TARGET_SAMPLE_RATE)
             IN  Ok(wav_bytes(TARGET_CHANNELS, TARGET_SAMPLE_RATE, normalized))

\* ElevenLabsAdapter::to_wav_bytes
elevenlabs_to_wav_bytes(audio) ==
    IF audio.len = 0 THEN Error(InvalidAudio)
    ELSE Ok(wav_bytes(audio.channels, audio.sample_rate, audio.len))

MaxSamples == 4        \* samples of a buffer handed to to_wav_bytes

\* buffers of the rates and layouts input devices deliver, as AudioCapture::start
\* sets them from the device's default configuration
UploadInputs ==
    { Speech(len, sample_rate, channels, 0) :
        len \in 0..MaxSamples,
        sample_rate \in {8000, 16000, 44100, 48000},
        channels \in {1, 2} }

InitWav ==
    /\ now = 0
    /\ InitOrchestrator(<< >>)
    /\ InitBreaker
    /\ InitSession
    /\ InitClients
    /\ InitDevices
    /\ argument \in { Call(fn, audio) :
                         fn \in {"GroqAdapter::to_wav_bytes", "ElevenLabsAdapter::to_wav_bytes"},
                         audio \in UploadInputs }
    /\ returned = None

GroqToWavBytes ==
    /\ argument.fn = "GroqAdapter::to_wav_bytes" /\ IsNone(returned)
    /\ returned' = Some(groq_to_wav_bytes(argument.arg))
    /\ UNCHANGED <<argument, now, ovars, bvars, svars, cvars, dvars>>

ElevenLabsToWavBytes ==
    /\ argument.fn = "ElevenLabsAdapter::to_wav_bytes" /\ IsNone(returned)
    /\ returned' = Some(elevenlabs_to_wav_bytes(argument.arg))
    /\ UNCHANGED <<argument, now, ovars, bvars, svars, cvars, dvars>>

NextWav ==
    \/ GroqToWavBytes
    \/ ElevenLabsToWavBytes

SpecWav == InitWav /\ [][NextWav]_vars

----------------------------------------------------------------------------
(* stt/groq.rs, stt/elevenlabs.rs: what the adapters do with the audio       *)
(* before the request is sent, under the orchestrator's transcribe           *)

\* groq.rs: const MAX_DURATION_SECS: f32 = 59.0, in hundredths of a second
MAX_DURATION_SECS == 5900

\* GroqAdapter::effective_duration_secs, in hundredths of a second
effective_duration_secs(audio) ==
    IF audio.duration_secs > 0
    THEN audio.duration_secs
    ELSE IF audio.sample_rate = 0
         THEN 0
         ELSE (audio.len * 100) \div (audio.sample_rate * Max(audio.channels, 1))

\* GroqAdapter::transcribe with the guard on the encoded buffer only
groq_transcribe_unguarded(audio, answers) ==
    IF groq_to_wav_bytes(audio).tag = "Err"
    THEN { groq_to_wav_bytes(audio) }
    ELSE answers

\* GroqAdapter::transcribe up to the request: the results the call can have
\* for this audio, `answers` being what the service can reply
groq_transcribe(audio, answers) ==
    IF effective_duration_secs(audio) > MAX_DURATION_SECS
    THEN { Error(AudioTooLong) }
    ELSE IF groq_to_wav_bytes(audio).tag = "Err"
         THEN { groq_to_wav_bytes(audio) }
         ELSE answers

\* ElevenLabsAdapter::transcribe up to the request
elevenlabs_transcribe(audio, answers) ==
    IF elevenlabs_to_wav_bytes(audio).tag = "Err"
    THEN { elevenlabs_to_wav_bytes(audio) }
    ELSE answers

\* Groq before ElevenLabs, neither retried: the services answer, and the
\* adapters fail on the audio they refuse
InputProviders ==
    << ProviderConfig("groq", 1,
            Adapter("Groq", OneText, {70}, {InvalidAudio, AudioTooLong}, FALSE), 0, 70),
       ProviderConfig("elevenlabs", 2,
            Adapter("ElevenLabs", OneText, {70}, {InvalidAudio}, FALSE), 0, 70) >>

\* buffers handed to the transcribe_audio command: one second of speech, an
\* empty recording, a minute with and without its cached duration, and an
\* empty recording whose cached duration says a minute
InputAudios ==
    { Speech(16000, 16000, 1, 100),
      Speech(0, 16000, 1, 0),
      Speech(960000, 16000, 1, 6000),
      Speech(960000, 16000, 1, 0),
      Speech(0, 16000, 1, 6000) }

\* what the adapter of the provider in turn returns for the audio of the call
adapter_transcribe(p, audio) ==
    LET answers == { r \in { try_provider(raw) : raw \in p.adapter.outcomes } :
                        r.tag = "Ok" }
    IN  IF p.adapter.name = "Groq"
        THEN groq_transcribe(audio, answers)
        ELSE elevenlabs_transcribe(audio, answers)

InitInput ==
    /\ now = 0
    /\ InitOrchestrator(InputProviders)
    /\ InitBreaker
    /\ InitSession
    /\ InitClients
    /\ InitOthers

\* lib.rs: transcribe_audio(audio, state)
TranscribeAudioInput ==
    /\ ocaller = "none"
    /\ transcribe_begin("transcribe_audio")
    /\ \E audio \in InputAudios : argument' = Call("transcribe_audio", audio)
    /\ UNCHANGED <<returned, bvars, dvars, svars, cvars>>

\* the adapter call in flight returns what the adapter makes of the audio
AttemptReturnsInput ==
    /\ attempt_returns
    /\ attempt_log'[Len(attempt_log')].result
            \in adapter_transcribe(providers[idx], argument.arg)
    /\ UNCHANGED <<bvars, xvars, svars, cvars>>

NextInput ==
    \/ TranscribeAudioInput
    \/ AttemptReturnsInput
    \/ TranscribeAudioReturn
    \/ Tick

SpecInput == InitInput /\ [][NextInput]_vars

----------------------------------------------------------------------------
(* The recorder driven by start_recording and stop_recording, with the       *)
(* stream's callback appending what the device delivers                       *)

MaxCaptureOps == 4     \* start_recording and stop_recording calls per behaviour
MaxChunks == 3         \* chunks of 4800 samples a buffer grows to

ChunkLens == {4800, 9600}

\* the streams after a call that built and dropped some
StreamsAfter(call) ==
    (streams \cup { call.built[k] : k \in DOMAIN call.built }) \ call.dropped

\* the recorder after a call on it, and the call as it is remembered
AudioCalled(op, device, call) ==
    /\ recorder' = call.recorder
    /\ streams' = StreamsAfter(call)
    /\ stream_next' = stream_next + Len(call.built)
    /\ alast' = [op |-> op, device |-> device, result |-> call.result, pre |-> recorder,
                 pre_streams |-> streams]
    /\ aops' = aops + 1
    /\ arrived' = IF op = "start_recording" /\ call.result.tag = "Ok" THEN << >> ELSE arrived
    /\ UNCHANGED <<now, ovars, bvars, svars, cvars, fvars, lvars>>

AudioCall(op, device, call) ==
    /\ aops < MaxCaptureOps
    /\ AudioCalled(op, device, call)
    /\ UNCHANGED <<pvars, evars>>

StartRecording ==
    \E device \in Devices :
        AudioCall("start_recording", Some(device),
                  start_recording(recorder, device, stream_next))

StopRecording == AudioCall("stop_recording", None, stop_recording(recorder))

\* write_input_data, write_input_data_f32: the callback of a playing stream
InputCallback ==
    /\ recorder.capture.stream # None
    /\ Unwrap(recorder.capture.stream) \in streams
    /\ recorder.capture.buffer.len < MaxChunks * 4800
    /\ \E data_len \in ChunkLens :
          LET data == Chunk(Unwrap(recorder.capture.stream), Len(arrived) + 1, data_len)
          IN  /\ recorder' = [recorder EXCEPT !.capture.buffer = append(@, data)]
              /\ arrived' = Append(arrived, data)
    /\ UNCHANGED <<streams, stream_next, alast, aops>>
    /\ UNCHANGED <<now, ovars, bvars, svars, cvars, fvars, pvars, lvars, evars>>

InitCapture ==
    /\ now = 0
    /\ InitOrchestrator(<< >>)
    /\ InitBreaker
    /\ InitSession
    /\ InitClients
    /\ InitOthers

NextCapture ==
    \/ StartRecording
    \/ StopRecording
    \/ InputCallback

SpecCapture == InitCapture /\ [][NextCapture]_vars

----------------------------------------------------------------------------
(* SpecPaste: capture_target and try_auto_paste called in any order on the   *)
(* context of each build, the foreground window changing in between           *)

MaxPasteOps == 3       \* capture_target and try_auto_paste calls per behaviour

ZentraWindow == 1      \* the handle of the application's main window

Handles == {0, ZentraWindow, 2, 3}

\* current_zentra_window_handle: the handle of the main window, 0 when it
\* cannot be had
current_zentra_window_handle(os) ==
    IF os \in {"windows", "macos"} THEN {0, ZentraWindow} ELSE {0}

\* the answers of the desktop to the Windows build, which alone asks for them
Desktops(os) ==
    IF os = "windows"
    THEN { Desktop(foreground, restored, refocused, class_name, focused, sent) :
             restored \in BOOLEAN, refocused \in Handles \ {0},
             class_name \in {None, Some("Edit"), Some("ConsoleWindowClass")},
             focused \in BOOLEAN, sent \in {0, INPUTS_LEN} }
    ELSE { Desktop(foreground, FALSE, foreground, None, FALSE, 0) }

\* the answers of osascript to the macOS build, which alone runs it
Outputs(os) ==
    IF os = "macos"
    THEN { [status |-> status, stderr |-> stderr] :
             status \in {"success", "failed", "error"}, stderr \in {"", "not allowed"} }
    ELSE { [status |-> "error", stderr |-> ""] }

PasteCall(op, zentra_window, context, paste_attempt) ==
    /\ pops < MaxPasteOps
    /\ paste_context' = context
    /\ plast' = [op |-> op, zentra_window |-> zentra_window, foreground |-> foreground,
                 attempt |-> paste_attempt, pre |-> paste_context,
                 before |-> PasteCalled(plast.op, plast.zentra_window, plast.foreground,
                                        plast.attempt)]
    /\ pops' = pops + 1
    /\ UNCHANGED <<target_os, now, ovars, bvars, svars, cvars, fvars, avars, lvars, evars>>

\* start_recording_internal with capture_paste_target
CaptureTarget ==
    \E zentra_window \in current_zentra_window_handle(target_os) :
        /\ PasteCall("capture_target", zentra_window,
                     capture_target(paste_context, target_os, foreground, zentra_window),
                     None)
        /\ UNCHANGED foreground

\* paste_text; SetForegroundWindow changes the foreground window when the
\* attempt gets to it and it succeeds
TryAutoPaste ==
    \E zentra_window \in current_zentra_window_handle(target_os),
       desktop \in Desktops(target_os), output \in Outputs(target_os) :
        LET call == try_auto_paste(paste_context, target_os, zentra_window, desktop, output)
            restoring ==
                /\ target_os = "windows"
                /\ paste_context.target_hwnd # None
                /\ is_same_window(foreground, zentra_window)
                /\ desktop.restored
        IN  /\ PasteCall("try_auto_paste", zentra_window, call.context, Some(call.attempt))
            /\ foreground' = IF restoring THEN desktop.refocused ELSE foreground

\* the user brings another window to the foreground, or none is left there
ForegroundChanges ==
    /\ foreground' \in Handles \ {foreground}
    /\ UNCHANGED <<target_os, paste_context, plast, pops>>
    /\ UNCHANGED <<now, ovars, bvars, svars, cvars, fvars, avars, lvars, evars>>

InitPaste ==
    /\ now = 0
    /\ InitOrchestrator(<< >>)
    /\ InitBreaker
    /\ InitSession
    /\ InitClients
    /\ InitNoCall
    /\ InitRecorder
    /\ target_os \in TargetOs
    /\ paste_context = PasteContextDefault
    /\ foreground \in Handles
    /\ plast = NoPasteCall
    /\ pops = 0
    /\ InitNoStitching
    /\ InitNoEmitter

NextPaste ==
    \/ CaptureTarget
    \/ TryAutoPaste
    \/ ForegroundChanges

SpecPaste == InitPaste /\ [][NextPaste]_vars

----------------------------------------------------------------------------
(* SpecLevel: the recording commands of lib.rs, run one at a time and step   *)
(* by step, with the emitter tasks they spawn running beside them             *)

MaxLevelOps == 4       \* recording commands per behaviour

LevelOps == {"start_recording", "stop_recording", "start_mic_monitor", "stop_mic_monitor"}

\* the audio hosts a command may find: one with a device that plays, one with none
LevelDevices == { Device("ok", 16000, 1), Device("no_device", 16000, 1) }

\* start_capture, as the steps it takes after the recorder started
start_capture(capture_paste_target) ==
    << "start_capture" >>
        \o (IF capture_paste_target THEN << "capture_target" >> ELSE << >>)
        \o << "flag_true", "spawn", "store" >>

\* stop_capture_and_return_buffer and stop_capture_safely, which differ in the
\* first step: what a recorder that does not stop makes of the call
stop_capture(first) == << first, "flag_false", "take" >>

\* the steps of a command; key is whether GROQ_API_KEY starts with gsk_
Program(op, key) ==
    CASE op = "start_recording" ->
            IF key THEN stop_capture("stop_capture_safely") \o start_capture(TRUE) ELSE << >>
      [] op = "stop_recording" -> stop_capture("stop_capture_and_return_buffer")
      [] op = "start_mic_monitor" -> start_capture(FALSE)
      [] op = "stop_mic_monitor" -> stop_capture("stop_capture_safely")

\* JoinHandle::abort: a task that has finished stays finished
abort(ts, handle) ==
    IF handle # None /\ ts[Unwrap(handle)] = "running"
    THEN [ts EXCEPT ![Unwrap(handle)] = "aborted"]
    ELSE ts

\* the slot and the tasks after a lock of audio_level_task
Slot(task, ts) == [audio_level_task |-> task, tasks |-> ts]

\* start_audio_level_loop storing its handle
store(task, ts, handle) == Slot(handle, abort(ts, task))

\* stop_audio_level_loop taking the handle and leaving the task to run
take_detaches(task, ts) == Slot(None, ts)

\* stop_audio_level_loop taking the handle
take(task, ts) == Slot(None, abort(ts, task))

Idle == command.todo = << >>

Step(name) == command.todo # << >> /\ Head(command.todo) = name

\* the command goes on to its next step, or returns where the step failed
\* and the command gives up on it
Advance(failed) ==
    command' = [command EXCEPT !.todo = IF failed THEN << >> ELSE Tail(@)]

\* the webview invokes a command once the one before it has returned
LevelCommand ==
    /\ Idle
    /\ level_ops < MaxLevelOps
    /\ \E op \in LevelOps, key \in BOOLEAN :
          command' = RecordingCommand(op, Program(op, key), None)
    /\ level_ops' = level_ops + 1
    /\ UNCHANGED <<audio_level_flag, audio_level_task, tasks>>
    /\ UNCHANGED <<now, ovars, bvars, svars, cvars, fvars, avars, pvars, lvars>>

\* recorder.stop_recording() in stop_capture_and_return_buffer, which returns
\* its error, and in stop_capture_safely, which drops it
StopCapture ==
    /\ Step("stop_capture_safely") \/ Step("stop_capture_and_return_buffer")
    /\ LET call == stop_recording(recorder)
       IN  /\ AudioCalled("stop_recording", None, call)
           /\ Advance(Step("stop_capture_and_return_buffer") /\ call.result.tag = "Err")
    /\ UNCHANGED <<audio_level_flag, audio_level_task, tasks, level_ops, pvars>>

\* recorder.start_recording() in start_capture
StartCapture ==
    /\ Step("start_capture")
    /\ \E device \in LevelDevices :
          LET call == start_recording(recorder, device, stream_next)
          IN  /\ AudioCalled("start_recording", Some(device), call)
              /\ Advance(call.result.tag = "Err")
    /\ UNCHANGED <<audio_level_flag, audio_level_task, tasks, level_ops, pvars>>

\* paste_context.capture_target(zentra_window) in start_capture
CaptureTargetStep ==
    /\ Step("capture_target")
    /\ \E zentra_window \in current_zentra_window_handle(target_os) :
          paste_context' = capture_target(paste_context, target_os, foreground, zentra_window)
    /\ Advance(FALSE)
    /\ UNCHANGED <<target_os, foreground, plast, pops>>
    /\ UNCHANGED <<audio_level_flag, audio_level_task, tasks, level_ops>>
    /\ UNCHANGED <<now, ovars, bvars, svars, cvars, fvars, avars, lvars>>

\* state.audio_level_flag.store(..)
FlagStore ==
    /\ Step("flag_true") \/ Step("flag_false")
    /\ audio_level_flag' = Step("flag_true")
    /\ Advance(FALSE)
    /\ UNCHANGED <<audio_level_task, tasks, level_ops>>
    /\ UNCHANGED <<now, ovars, bvars, svars, cvars, fvars, avars, pvars, lvars>>

\* tauri::async_runtime::spawn in start_audio_level_loop
SpawnEmitter ==
    /\ Step("spawn")
    /\ tasks' = Append(tasks, "running")
    /\ command' = [command EXCEPT !.todo = Tail(@), !.handle = Some(Len(tasks) + 1)]
    /\ UNCHANGED <<audio_level_flag, audio_level_task, level_ops>>
    /\ UNCHANGED <<now, ovars, bvars, svars, cvars, fvars, avars, pvars, lvars>>

\* a lock of audio_level_task in start_audio_level_loop or stop_audio_level_loop
LockTask(slot) ==
    /\ audio_level_task' = slot.audio_level_task
    /\ tasks' = slot.tasks
    /\ command' = [command EXCEPT !.todo = Tail(@), !.handle = None]
    /\ UNCHANGED <<audio_level_flag, level_ops>>
    /\ UNCHANGED <<now, ovars, bvars, svars, cvars, fvars, avars, pvars, lvars>>

StoreTask == Step("store") /\ LockTask(store(audio_level_task, tasks, command.handle))

TakeTask == Step("take") /\ LockTask(take(audio_level_task, tasks))

\* the emitter finds the flag down, emits 0.0 and ends
EmitterEnds ==
    /\ ~audio_level_flag
    /\ \E t \in DOMAIN tasks :
          /\ tasks[t] = "running"
          /\ tasks' = [tasks EXCEPT ![t] = "finished"]
    /\ UNCHANGED <<audio_level_flag, audio_level_task, command, level_ops>>
    /\ UNCHANGED <<now, ovars, bvars, svars, cvars, fvars, avars, pvars, lvars>>

InitLevel == InitCapture

NextLevel ==
    \/ LevelCommand
    \/ StopCapture
    \/ StartCapture
    \/ CaptureTargetStep
    \/ FlagStore
    \/ SpawnEmitter
    \/ StoreTask
    \/ TakeTask
    \/ EmitterEnds

SpecLevel == InitLevel /\ [][NextLevel]_vars

----------------------------------------------------------------------------
(* SpecBackoff: the retry loop of transcribe on a provider that times out on *)
(* every attempt and has the largest max_retries a u8 holds                   *)

InitBackoff ==
    /\ now = 0
    /\ InitOrchestrator(<< >>)
    /\ InitBreaker
    /\ InitSession
    /\ InitClients
    /\ InitDevices
    /\ argument = Call("wait_before_retry", 0)
    /\ returned = None

\* retry_policy.wait_before_retry(attempt).await
WaitBeforeRetry ==
    /\ argument.fn = "wait_before_retry" /\ IsNone(returned)
    /\ returned' = Some(delay(argument.arg))
    /\ UNCHANGED <<argument, now, ovars, bvars, svars, cvars, dvars>>

\* attempt += 1; continue; and the attempt fails like the ones before it
RetryFails ==
    /\ argument.fn = "wait_before_retry" /\ IsSome(returned)
    /\ should_retry(U8 - 1, argument.arg + 1, TimeoutError)
    /\ argument' = Call("wait_before_retry", argument.arg + 1)
    /\ returned' = None
    /\ UNCHANGED <<now, ovars, bvars, svars, cvars, dvars>>

NextBackoff ==
    \/ WaitBeforeRetry
    \/ RetryFails

SpecBackoff == InitBackoff /\ [][NextBackoff]_vars

----------------------------------------------------------------------------
(* map_orchestrator_error applied to the errors transcribe can return *)

MaxErrors == 3         \* entries of an AllProvidersFailed list

\* entries transcribe pushes: an adapter's error, a breaker that is open, a
\* transcript below the threshold
ErrorEntries ==
    { << id, e >> : id \in {"groq", "elevenlabs"},
                    e \in {AuthenticationError, RateLimitError, TimeoutError, NetworkError,
                           InvalidAudio, BreakerOpenError, LowConfidenceError} }

SeqsUpTo(S, n) == UNION { [1..k -> S] : k \in 1..n }

\* NoProvidersAvailable, or AllProvidersFailed with one entry per provider tried
OrchestratorErrors ==
    {NoProvidersAvailable} \cup { AllProvidersFailed(errs) : errs \in SeqsUpTo(ErrorEntries, MaxErrors) }

InitReason ==
    /\ now = 0
    /\ InitOrchestrator(<< >>)
    /\ InitBreaker
    /\ InitSession
    /\ InitClients
    /\ InitDevices
    /\ argument \in { Call("map_orchestrator_error", e) : e \in OrchestratorErrors }
    /\ returned = None

MapOrchestratorError ==
    /\ argument.fn = "map_orchestrator_error" /\ IsNone(returned)
    /\ returned' = Some(map_orchestrator_error(argument.arg))
    /\ UNCHANGED <<argument, now, ovars, bvars, svars, cvars, dvars>>

NextReason == MapOrchestratorError

SpecReason == InitReason /\ [][NextReason]_vars

----------------------------------------------------------------------------
(* normalize_text and stitch_transcripts applied to texts and segments *)

MaxTextLen == 4        \* characters of a text handed to normalize_text
MaxWords == 3          \* words of a transcript handed to stitch_transcripts

Characters == {"a", "B", " ", "\t", ".", ","}

Texts == { << >> } \cup SeqsUpTo(Characters, MaxTextLen)

Words == { << "a" >>, << "A" >>, << "b" >> }

\* transcripts of one to MaxWords words
WordTexts == { join_words(ws) : ws \in SeqsUpTo(Words, MaxWords) }

GroqTranscript(text) == Transcript(text, 70, "Groq")

\* "gostaria de pedir um" and "um café por favor"
OverlapExample ==
    << GroqTranscript(
        << "g", "o", "s", "t", "a", "r", "i", "a", " ", "d", "e", " ", "p", "e", "d", "i",
        "r", " ", "u", "m" >>),
       GroqTranscript(
        << "u", "m", " ", "c", "a", "f", "é", " ", "p", "o", "r", " ", "f", "a", "v", "o",
        "r" >>) >>

\* no segment, two segments of a few words, the segments of the example
SegmentLists ==
    { StoredSegments(<< >>), StoredSegments(OverlapExample) }
       \cup { StoredSegments(<< GroqTranscript(t1), GroqTranscript(t2) >>) :
                 t1 \in WordTexts, t2 \in WordTexts }

InitText ==
    /\ now = 0
    /\ InitOrchestrator(<< >>)
    /\ InitBreaker
    /\ InitSession
    /\ InitClients
    /\ InitDevices
    /\ argument \in { Call("normalize_text", t) : t \in Texts }
                     \cup { Call("stitch_transcripts", segs) : segs \in SegmentLists }
    /\ returned = None

NormalizeText ==
    /\ argument.fn = "normalize_text" /\ IsNone(returned)
    /\ returned' = Some(normalize_text(argument.arg))
    /\ UNCHANGED <<argument, now, ovars, bvars, svars, cvars, dvars>>

\* the normalized text becomes the transcript of the only segment of a session
StitchNormalized ==
    /\ argument.fn = "normalize_text" /\ IsSome(returned)
    /\ argument' = Call("stitch_transcripts",
                        StoredSegments(<< GroqTranscript(Unwrap(returned)) >>))
    /\ returned' = None
    /\ UNCHANGED <<now, ovars, bvars, svars, cvars, dvars>>

StitchTranscripts ==
    /\ argument.fn = "stitch_transcripts" /\ IsNone(returned)
    /\ returned' = Some(stitch_transcripts(argument.arg))
    /\ UNCHANGED <<argument, now, ovars, bvars, svars, cvars, dvars>>

NextText ==
    \/ NormalizeText
    \/ StitchNormalized
    \/ StitchTranscripts

SpecText == InitText /\ [][NextText]_vars

----------------------------------------------------------------------------
(* SpecLoop: stitch_transcripts on sessions of three segments, one iteration *)
(* of its loop at a time. Besides the locals of the function the state keeps  *)
(* what the last iteration saw: the words of its segment, the overlap it      *)
(* found, previous_words as it was before, and the words every segment kept.  *)

MaxLoopWords == 3      \* words of the first and of the third transcript
MaxMiddleWords == 2    \* words of the second transcript

LoopTokens == { << "a" >>, << "b" >> }

\* up to n words, and "A" on its own
LoopTexts(n) ==
    { join_words(ws) : ws \in { << >> } \cup SeqsUpTo(LoopTokens, n) } \cup { << "A" >> }

LoopSegmentLists ==
    { StoredSegments(<< >>) }
       \cup { StoredSegments(<< GroqTranscript(t1), GroqTranscript(t2), GroqTranscript(t3) >>) :
                 t1 \in LoopTexts(MaxLoopWords), t2 \in LoopTexts(MaxMiddleWords),
                 t3 \in LoopTexts(MaxLoopWords) }

InitLoop ==
    /\ now = 0
    /\ InitOrchestrator(<< >>)
    /\ InitBreaker
    /\ InitSession
    /\ InitClients
    /\ InitNoCall
    /\ InitRecorder
    /\ InitPasteContext
    /\ stitching \in { Stitching(segs) : segs \in LoopSegmentLists }
    /\ InitNoEmitter

\* for segment in segments { .. }
StitchSegment ==
    /\ stitching.result = None
    /\ stitching.i <= Len(stitching.segments)
    /\ LET segment == stitching.segments[stitching.i]
       IN  IF IsNone(segment.transcript)
           THEN stitching' = [stitching EXCEPT
                                !.result = Some(Error(SegmentNotTranscribed(segment.id)))]
           ELSE LET all_words == split_whitespace(Unwrap(segment.transcript).text)
                    step == stitch_words(all_words, stitching.full_text,
                                         stitching.previous_words)
                IN  stitching' = [stitching EXCEPT
                                    !.i = @ + 1,
                                    !.full_text = step.full_text,
                                    !.previous_words = step.previous_words,
                                    !.all_words = all_words,
                                    !.overlap_size = step.overlap_size,
                                    !.tail_before = stitching.previous_words,
                                    !.kept = Append(@, step.words)]
    /\ UNCHANGED <<now, ovars, bvars, svars, cvars, fvars, avars, pvars, evars>>

\* Ok(String::new()) for no segments, Ok(normalized) after the loop
StitchReturns ==
    /\ stitching.result = None
    /\ stitching.i > Len(stitching.segments)
    /\ stitching' = [stitching EXCEPT
                       !.result = Some(IF stitching.segments = << >> THEN Ok(<< >>)
                                       ELSE Ok(normalize_text(stitching.full_text)))]
    /\ UNCHANGED <<now, ovars, bvars, svars, cvars, fvars, avars, pvars, evars>>

NextLoop ==
    \/ StitchSegment
    \/ StitchReturns

SpecLoop == InitLoop /\ [][NextLoop]_vars

----------------------------------------------------------------------------
(* One CircuitBreaker driven through its public methods *)

BreakerIsRequestAllowed ==
    LET r == is_request_allowed(breaker, now)
    IN  /\ breaker' = r.cb
        /\ blast' = [op |-> "is_request_allowed", allowed |-> r.allowed,
                     pre |-> breaker, at |-> now]
        /\ UNCHANGED <<bhist, now, ovars, svars, cvars, xvars>>

BreakerRecordSuccess ==
    /\ Len(bhist) < MaxHist
    /\ breaker' = record_success(breaker)
    /\ bhist' = Append(bhist, [res |-> "ok", at |-> now])
    /\ blast' = [op |-> "record_success", allowed |-> TRUE, pre |-> breaker, at |-> now]
    /\ UNCHANGED <<now, ovars, svars, cvars, xvars>>

BreakerRecordFailure ==
    /\ Len(bhist) < MaxHist
    /\ breaker' = record_failure(breaker, now)
    /\ bhist' = Append(bhist, [res |-> "fail", at |-> now])
    /\ blast' = [op |-> "record_failure", allowed |-> TRUE, pre |-> breaker, at |-> now]
    /\ UNCHANGED <<now, ovars, svars, cvars, xvars>>

InitBreakerOnly ==
    /\ now = 0
    /\ InitOrchestrator(<< >>)
    /\ InitBreaker
    /\ InitSession
    /\ InitClients
    /\ InitOthers

NextBreaker ==
    \/ BreakerIsRequestAllowed
    \/ BreakerRecordSuccess
    \/ BreakerRecordFailure
    \/ Tick

SpecBreaker == InitBreakerOnly /\ [][NextBreaker]_vars

----------------------------------------------------------------------------
(* Properties of FailoverOrchestrator::transcribe *)

\* provider indexes of the adapter calls of the current transcribe call, in
\* order: the ones that returned and the one in flight
Attempted ==
    [k \in 1..Len(attempt_log) |-> attempt_log[k].provider]
        \o (IF opc = "attempting" THEN << idx >> ELSE << >>)

PositionGiven(id) == CHOOSE k \in DOMAIN given : given[k].id = id

SkippedIndexes == { s.provider : s \in skipped }

IsAccepted(entry) ==
    /\ entry.result.tag = "Ok"
    /\ entry.result.value.confidence >= providers[entry.provider].confidence_threshold

IsLowConfidence(entry) ==
    /\ entry.result.tag = "Ok"
    /\ entry.result.value.confidence < providers[entry.provider].confidence_threshold

RetryableKinds == {"NetworkError", "TimeoutError", "RateLimitError"}
NonRetryableKinds ==
    {"AudioTooLong", "InvalidAudio", "AuthenticationError", "ProviderError", "ModelNotFound"}

\* the log entries of provider i
EntriesOf(i) == { k \in DOMAIN attempt_log : attempt_log[k].provider = i }
LastEntryOf(i) == attempt_log[CHOOSE k \in EntriesOf(i) : \A j \in EntriesOf(i) : j <= k]

Returned == opc = "done" /\ IsSome(oresult)
ReturnedOk == Returned /\ oresult[1].tag = "Ok"
ReturnedAllFailed ==
    Returned /\ oresult[1].tag = "Err" /\ oresult[1].error.tag = "AllProvidersFailed"

\* C1: transcribe attempts providers in non-decreasing priority order, equal
\* priorities in the order they were given to new(), leaving out only providers
\* skipped by their breaker; the first transcript whose confidence reaches its
\* provider's threshold ends the call: no adapter call follows it and it is the
\* transcript returned.
C1_PriorityOrderStopAtFirstAccepted ==
    /\ \A j, k \in DOMAIN Attempted :
         j < k =>
           LET pj == providers[Attempted[j]]
               pk == providers[Attempted[k]]
           IN  /\ pj.priority <= pk.priority
               /\ (pj.priority = pk.priority /\ pj.id # pk.id)
                     => PositionGiven(pj.id) < PositionGiven(pk.id)
    /\ \A i \in DOMAIN providers :
         (opc # "idle" /\ i < idx) =>
            (i \in SkippedIndexes \/ \E k \in DOMAIN attempt_log : attempt_log[k].provider = i)
    /\ \A k \in DOMAIN attempt_log :
         IsAccepted(attempt_log[k]) =>
            /\ k = Len(attempt_log)
            /\ opc = "done"
            /\ oresult = Some(Ok(attempt_log[k].result.value))
    /\ ReturnedOk =>
            /\ attempt_log # << >>
            /\ IsAccepted(attempt_log[Len(attempt_log)])

\* a call that failed over between providers of equal priority given in an
\* order new() kept, or of different priority given in an order new() changed
C1_Witness ==
    /\ ReturnedOk
    /\ Len(attempt_log) >= 2
    /\ attempt_log[1].provider # attempt_log[Len(attempt_log)].provider
    /\ given # providers

C1_WitnessTie ==
    /\ ReturnedOk
    /\ \E j, k \in DOMAIN attempt_log :
         /\ j < k
         /\ attempt_log[j].provider # attempt_log[k].provider
         /\ providers[attempt_log[j].provider].priority
               = providers[attempt_log[k].provider].priority

\* C2: when transcribe returns the transcript of provider p, p has one more
\* success in the metrics and its breaker is as record_success leaves it; every
\* provider attempted before p has exactly one more failure in the metrics and
\* one more failure recorded by its breaker, however many retries it had; the
\* providers after p, and the skipped ones, are as they were when the call
\* started.  A provider whose breaker had no failure recorded has one
\* afterwards and its breaker is not Open.
C2_PerCallAccounting ==
    ReturnedOk =>
      LET last == attempt_log[Len(attempt_log)].provider
      IN  \A i \in DOMAIN providers :
            LET id == providers[i].id
                cb == circuit_breakers[id]
            IN  /\ (i = last) =>
                     /\ get_success_count(metrics, id) = get_success_count(metrics0, id) + 1
                     /\ get_failure_count(metrics, id) = get_failure_count(metrics0, id)
                     /\ cb.state.tag = "Closed"
                     /\ cb.failure_count = 0
                     /\ cb.last_failure_time = None
                /\ (i < last /\ i \notin SkippedIndexes) =>
                     /\ get_failure_count(metrics, id) = get_failure_count(metrics0, id) + 1
                     /\ get_success_count(metrics, id) = get_success_count(metrics0, id)
                     /\ cb.failure_count \in {1, cb0[id].failure_count + 1}
                     /\ IsSome(cb.last_failure_time)
                     /\ cb.last_failure_time # cb0[id].last_failure_time
                           => Unwrap(cb.last_failure_time) <= now
                     /\ cb0[id].failure_count = 0 =>
                           (cb.failure_count = 1 /\ cb.state.tag # "Open")
                /\ (i > last \/ i \in SkippedIndexes) =>
                     /\ cb = cb0[id]
                     /\ get_failure_count(metrics, id) = get_failure_count(metrics0, id)
                     /\ get_success_count(metrics, id) = get_success_count(metrics0, id)

\* the first provider, fresh, fails with RateLimitError and the second one's
\* transcript is returned
C2_Witness ==
    /\ ReturnedOk
    /\ Len(attempt_log) = 2
    /\ attempt_log[1].provider = 1
    /\ attempt_log[1].result = Error(RateLimitError)
    /\ attempt_log[2].provider = 2
    /\ cb0[providers[1].id] = CircuitBreakerNew
    /\ circuit_breakers[providers[1].id].failure_count = 1

\* the first provider fails after a retry and the second one's transcript is returned
C2_WitnessRetried ==
    /\ ReturnedOk
    /\ Len(attempt_log) = 3
    /\ attempt_log[1].provider = 1
    /\ attempt_log[2].provider = 1
    /\ attempt_log[3].provider = 2

CountAttempts(i) == Cardinality({ k \in DOMAIN Attempted : Attempted[k] = i })

\* C3: a transcript below its provider's confidence_threshold is not retried:
\* no later adapter call of the call goes to that provider, the provider gets
\* one failure in its breaker and in the metrics and the entry
\* (id, ProviderError("Low confidence")) in the error list; with a single
\* provider whose first answer is such a transcript the call returns
\* AllProvidersFailed with exactly that entry after exactly one adapter call.
C3_LowConfidenceNotRetried ==
    /\ \A k \in DOMAIN attempt_log :
         IsLowConfidence(attempt_log[k]) =>
           LET i == attempt_log[k].provider
               id == providers[i].id
           IN  /\ \A j \in DOMAIN Attempted : j > k => Attempted[j] > i
               /\ Cardinality({ j \in DOMAIN all_errors : all_errors[j][1] = id }) = 1
               /\ \E j \in DOMAIN all_errors :
                     all_errors[j] = << id, Err("ProviderError", "Low confidence") >>
               /\ get_failure_count(metrics, id) = get_failure_count(metrics0, id) + 1
               /\ get_success_count(metrics, id) = get_success_count(metrics0, id)
               /\ circuit_breakers[id].failure_count \in {1, cb0[id].failure_count + 1}
               /\ IsSome(circuit_breakers[id].last_failure_time)
    /\ (Len(providers) = 1 /\ attempt_log # << >> /\ IsLowConfidence(attempt_log[1])) =>
           /\ opc = "done"
           /\ Len(attempt_log) = 1
           /\ oresult = Some(Error(AllProvidersFailed(
                  << << providers[1].id, Err("ProviderError", "Low confidence") >> >>)))

\* a single provider with threshold 0.7 answers with confidence 0.5
C3_Witness ==
    /\ Len(providers) = 1
    /\ providers[1].confidence_threshold = 70
    /\ Returned
    /\ Len(attempt_log) = 1
    /\ attempt_log[1].result.tag = "Ok"
    /\ attempt_log[1].result.value.confidence = 50

\* a low-confidence answer of the first provider, the call goes on to the second
C3_WitnessMovesOn ==
    /\ Len(attempt_log) >= 2
    /\ IsLowConfidence(attempt_log[1])
    /\ attempt_log[2].provider # attempt_log[1].provider

\* C4: within one transcribe call a provider gets at most max_retries + 1
\* adapter calls; a further call to the same provider follows only an error of
\* kind NetworkError, TimeoutError or RateLimitError returned while
\* attempt < max_retries; after an error of any other kind no further call goes
\* to that provider, so such an error on the first attempt leaves the provider
\* with exactly one adapter call.
C4_BoundedRetries ==
    /\ \A i \in DOMAIN providers : CountAttempts(i) <= providers[i].max_retries + 1
    /\ \A k \in DOMAIN Attempted :
         (k > 1 /\ Attempted[k] = Attempted[k - 1]) =>
            /\ attempt_log[k - 1].result.tag = "Err"
            /\ attempt_log[k - 1].result.error.kind \in RetryableKinds
            /\ attempt_log[k - 1].attempt < providers[Attempted[k]].max_retries
    /\ \A k \in DOMAIN attempt_log :
         attempt_log[k].result.tag = "Err" =>
            /\ attempt_log[k].result.error.kind \in RetryableKinds \cup NonRetryableKinds
            /\ attempt_log[k].result.error.kind \in NonRetryableKinds =>
                 /\ \A j \in DOMAIN Attempted : j > k => Attempted[j] # attempt_log[k].provider
                 /\ attempt_log[k].attempt = 0 => CountAttempts(attempt_log[k].provider) = 1

\* a provider with max_retries = 1 was retried after a retryable error and
\* failed again: two adapter calls, no third
C4_Witness ==
    /\ opc = "done"
    /\ \E i \in DOMAIN providers :
         /\ providers[i].max_retries = 1
         /\ CountAttempts(i) = 2
         /\ LastEntryOf(i).result.tag = "Err"
         /\ LastEntryOf(i).result.error.kind \in RetryableKinds

\* a provider with max_retries = 1 returned a non-retryable error first
C4_WitnessNonRetryable ==
    /\ opc = "done"
    /\ \E k \in DOMAIN attempt_log :
         /\ attempt_log[k].result.tag = "Err"
         /\ attempt_log[k].result.error.kind \in NonRetryableKinds
         /\ attempt_log[k].attempt = 0
         /\ providers[attempt_log[k].provider].max_retries = 1

\* C5: a provider whose breaker forbids requests (Open with less than cooldown
\* elapsed since tripped_at) when the loop reaches it is skipped: its adapter is
\* not called in that call, (id, ProviderError("Circuit breaker open")) is added
\* to the error list, the loop goes on with the next provider, and the
\* provider's breaker and metrics counters stay as they were; no other
\* provider is skipped.
C5_BreakerOpenSkips ==
    /\ \A s \in skipped :
         LET id == providers[s.provider].id
         IN  /\ cb0[id].state.tag = "Open"
             /\ s.at - cb0[id].state.tripped_at < 600
             /\ \A k \in DOMAIN Attempted : Attempted[k] # s.provider
             /\ Cardinality({ j \in DOMAIN all_errors : all_errors[j][1] = id }) = 1
             /\ \E j \in DOMAIN all_errors :
                   all_errors[j] = << id, Err("ProviderError", "Circuit breaker open") >>
             /\ circuit_breakers[id] = cb0[id]
             /\ get_failure_count(metrics, id) = get_failure_count(metrics0, id)
             /\ get_success_count(metrics, id) = get_success_count(metrics0, id)
             /\ (opc = "attempting" => idx > s.provider)
    /\ \A i \in DOMAIN providers :
         LET id == providers[i].id
         IN  (/\ opc # "idle"
              /\ (i < idx \/ ReturnedAllFailed)
              /\ cb0[id].state.tag = "Open"
              /\ now - cb0[id].state.tripped_at < 600)
                 => i \in SkippedIndexes

\* a provider was skipped and the call went on to call a later provider's adapter
C5_Witness ==
    /\ skipped # {}
    /\ \E s \in skipped : \E k \in DOMAIN attempt_log : attempt_log[k].provider > s.provider

\* the error transcribe reports for provider i when every provider failed
ExpectedError(i) ==
    IF i \in SkippedIndexes
    THEN Err("ProviderError", "Circuit breaker open")
    ELSE IF LastEntryOf(i).result.tag = "Ok"
         THEN Err("ProviderError", "Low confidence")
         ELSE LastEntryOf(i).result.error

\* C6: a call in which no provider yields an accepted transcript returns
\* NoProvidersAvailable if the provider list is empty, and otherwise
\* AllProvidersFailed with exactly one (provider_id, error) entry per configured
\* provider, in priority order, the error being the one of the provider's last
\* attempt, or the breaker-open or low-confidence error.
C6_AllProvidersFailedList ==
    (Returned /\ ~ReturnedOk) =>
       IF providers = << >>
       THEN oresult = Some(Error(NoProvidersAvailable))
       ELSE /\ oresult[1].error.tag = "AllProvidersFailed"
            /\ oresult[1].error.errors =
                  [i \in 1..Len(providers) |-> << providers[i].id, ExpectedError(i) >>]
            /\ \A i, j \in DOMAIN providers :
                  i < j => providers[i].priority <= providers[j].priority
            /\ \A i \in DOMAIN providers :
                  i \in SkippedIndexes \/ EntriesOf(i) # {}

\* all three providers fail, one of them after it was given out of priority order
C6_Witness ==
    /\ ReturnedAllFailed
    /\ Len(oresult[1].error.errors) = 3
    /\ given # providers

\* AllProvidersFailed holding a breaker-open entry, and one holding an entry of
\* a retried provider
C6_WitnessSkipped ==
    /\ ReturnedAllFailed
    /\ skipped # {}

C6_WitnessEmpty ==
    /\ Returned
    /\ oresult = Some(Error(NoProvidersAvailable))

----------------------------------------------------------------------------
(* Properties of CircuitBreaker *)

Results(h) == [k \in DOMAIN h |-> h[k].res]

\* the last three results recorded are failures, each within trip_window of
\* the one before
ThreeFailuresInWindow ==
    LET n == Len(bhist)
    IN  /\ n >= 3
        /\ \A k \in (n - 2)..n : bhist[k].res = "fail"
        /\ \A k \in (n - 1)..n : bhist[k].at - bhist[k - 1].at <= 300

\* C7: right after the results ok, ok, fail, fail, fail were recorded within
\* one second the breaker is Open; more generally right after a third failure
\* in a row, each within trip_window (300 s) of the one before, the breaker is
\* Open with tripped_at the time of that failure; and is_request_allowed called
\* on an Open breaker less than cooldown (600 s) after tripped_at returns false
\* and leaves the breaker as it was.
C7_ThreeFailuresOpen ==
    /\ (/\ blast.op = "record_failure"
        /\ Results(bhist) = << "ok", "ok", "fail", "fail", "fail" >>
        /\ bhist[5].at - bhist[1].at <= 1)
          => breaker.state.tag = "Open"
    /\ (blast.op = "record_failure" /\ ThreeFailuresInWindow)
          => /\ breaker.state = [tag |-> "Open", tripped_at |-> bhist[Len(bhist)].at]
             /\ breaker.failure_count >= 3
    /\ (/\ blast.op = "is_request_allowed"
        /\ blast.pre.state.tag = "Open"
        /\ blast.at - blast.pre.state.tripped_at < 600)
          => /\ blast.allowed = FALSE
             /\ breaker = blast.pre
             /\ breaker.state.tag = "Open"

\* ok, ok, fail, fail, fail recorded at the same instant
C7_Witness ==
    /\ blast.op = "record_failure"
    /\ Results(bhist) = << "ok", "ok", "fail", "fail", "fail" >>
    /\ bhist[5].at = bhist[1].at
    /\ breaker.state.tag = "Open"

\* a request refused 300 s after the breaker tripped
C7_WitnessRefused ==
    /\ blast.op = "is_request_allowed"
    /\ blast.pre.state.tag = "Open"
    /\ blast.at - blast.pre.state.tripped_at = 300
    /\ ~blast.allowed

\* C8: is_request_allowed called on a breaker that has been Open for at least
\* cooldown (600 s) moves it to HalfOpen and returns true, and record_success
\* on a HalfOpen breaker leaves it Closed with failure_count 0 and no
\* last_failure_time.
C8_ProbeAfterCooldown ==
    /\ (/\ blast.op = "is_request_allowed"
        /\ blast.pre.state.tag = "Open"
        /\ blast.at - blast.pre.state.tripped_at >= 600)
          => /\ blast.allowed = TRUE
             /\ breaker.state = [tag |-> "HalfOpen"]
             /\ breaker.failure_count = blast.pre.failure_count
             /\ breaker.last_failure_time = blast.pre.last_failure_time
    /\ (blast.op = "record_success" /\ blast.pre.state.tag = "HalfOpen")
          => /\ breaker.state = [tag |-> "Closed"]
             /\ breaker.failure_count = 0
             /\ breaker.last_failure_time = << >>

\* the probe admitted after the cooldown succeeded
C8_Witness ==
    /\ blast.op = "record_success"
    /\ blast.pre.state.tag = "HalfOpen"
    /\ blast.pre.failure_count >= 3
    /\ breaker.state.tag = "Closed"

\* the probe is admitted exactly when the cooldown has elapsed
C8_WitnessAdmitted ==
    /\ blast.op = "is_request_allowed"
    /\ blast.pre.state.tag = "Open"
    /\ blast.at - blast.pre.state.tripped_at = 600
    /\ breaker.state.tag = "HalfOpen"

----------------------------------------------------------------------------
(* Properties of SessionStitcher *)

\* the last session command has returned
CommandReturned(op) == spc = "idle" /\ slast.op = op

\* C9: add_segment and finalize_session called while no session is active
\* (before any start_session or after a successful finalize_session) return
\* NoActiveSession without calling the orchestrator and leave the session id
\* and the segments as they were; and whenever there is no session id there
\* are no segments.
C9_NoActiveSession ==
    /\ IsNone(current_session_id) => segments = << >>
    /\ \A op \in {"add_segment", "finalize_session"} :
         (CommandReturned(op) /\ slast.pre_id = << >>) =>
            /\ sresult = Some(Error([tag |-> "NoActiveSession"]))
            /\ calls = slast.pre_calls
            /\ opc = "idle"
            /\ current_session_id = slast.pre_id
            /\ segments = slast.pre_segments
    /\ spc # "idle" => IsSome(current_session_id)

\* add_segment refused after a session with transcribed segments was finalized
C9_Witness ==
    /\ CommandReturned("add_segment")
    /\ slast.pre_id = << >>
    /\ calls >= 1
    /\ uuid_next > 2

\* finalize_session refused before any start_session
C9_WitnessFinalize ==
    /\ CommandReturned("finalize_session")
    /\ slast.pre_id = << >>
    /\ uuid_next = 1

\* C10: start_session, from any state, leaves an active session with a new
\* session id and no segments; finalize_session on an active session with
\* segments returns the stitched result of those segments and leaves no session
\* id and no segments; finalize_session on an active session without segments
\* returns EmptySession and leaves the session active.
C10_SessionLifecycle ==
    /\ CommandReturned("start_session") =>
          /\ IsSome(current_session_id)
          /\ current_session_id # slast.pre_id
          /\ sresult = Some(Ok(Unwrap(current_session_id)))
          /\ segments = << >>
    /\ (CommandReturned("finalize_session") /\ IsSome(slast.pre_id)
          /\ slast.pre_segments # << >>) =>
          /\ sresult # << >>
          /\ sresult[1].tag = "Ok"
          /\ sresult[1].value.segment_count = Len(slast.pre_segments)
          /\ Ok(sresult[1].value.full_text) = stitch_transcripts(slast.pre_segments)
          /\ current_session_id = << >>
          /\ segments = << >>
    /\ (CommandReturned("finalize_session") /\ IsSome(slast.pre_id)
          /\ slast.pre_segments = << >>) =>
          /\ sresult = Some(Error([tag |-> "EmptySession"]))
          /\ current_session_id = slast.pre_id
          /\ segments = << >>

\* a session with two segments was finalized
C10_Witness ==
    /\ CommandReturned("finalize_session")
    /\ Len(slast.pre_segments) = 2
    /\ sresult[1].tag = "Ok"
    /\ current_session_id = << >>

\* start_session abandoned a session that had segments
C10_WitnessAbandon ==
    /\ CommandReturned("start_session")
    /\ slast.pre_segments # << >>

\* finalize_session on a session without segments
C10_WitnessEmpty ==
    /\ CommandReturned("finalize_session")
    /\ IsSome(slast.pre_id)
    /\ slast.pre_segments = << >>

\* C11: in every state of a session the i-th stored segment has sequence
\* number i: the numbers are contiguous and start at 1, also after add_segment
\* calls that were rejected or whose transcription failed, and in the sessions
\* that follow a start_session or a finalize_session.
C11_ContiguousSequenceNumbers ==
    \A i \in DOMAIN segments : segments[i].sequence_number = i

\* two stored segments with a failed transcription between them (its segment
\* id was used up)
C11_Witness ==
    /\ Len(segments) = 2
    /\ segments[2].id > segments[1].id + 1
    /\ segments[2].sequence_number = 2

\* the first segment of a second session
C11_WitnessSecondSession ==
    /\ Len(segments) = 1
    /\ Unwrap(current_session_id) > 1
    /\ segments[1].sequence_number = 1

\* an add_segment call was rejected in a session that holds segments
C11_WitnessRejected ==
    /\ CommandReturned("add_segment")
    /\ sresult[1].tag = "Err"
    /\ sresult[1].error.tag = "SegmentTooLong"
    /\ segments # << >>

\* C12: every stored segment has a transcript; as long as a segment is stored
\* its transcript, like the rest of it, does not change; so stitching the
\* stored segments never fails, and neither finalize_session nor get_progress
\* ever meets SegmentNotTranscribed: neither returns StitchError, and
\* get_progress on a session with segments returns their stitched text.
C12_StoredSegmentsTranscribed ==
    /\ [](\A i \in DOMAIN segments : segments[i].transcript # << >>)
    /\ [][\A i \in DOMAIN segments : \A j \in DOMAIN segments' :
              segments[i].id = segments'[j].id => segments'[j] = segments[i]]_vars
    /\ [](\A op \in {"finalize_session", "get_progress"} :
              CommandReturned(op) =>
                 /\ sresult[1].tag = "Err" => sresult[1].error.tag # "StitchError"
                 /\ (op = "get_progress" /\ slast.pre_segments # << >>) =>
                       Ok(sresult[1].value.current_text)
                          = stitch_transcripts(slast.pre_segments))

\* get_progress on a session holding a transcribed and a silence-gated segment
C12_Witness ==
    /\ CommandReturned("get_progress")
    /\ Len(segments) = 2
    /\ \E i, j \in DOMAIN segments :
          /\ Unwrap(segments[i].transcript).provider = "SilenceGate"
          /\ Unwrap(segments[j].transcript).provider = "Groq"
    /\ sresult[1].value.current_text # << >>

\* C16: when the orchestrator returns an error to add_segment, add_segment
\* returns TranscriptionFailed, the segment is not appended, the segments and
\* the session id stay as they were and the session stays active; the next
\* segment appended to the session gets the sequence number of the segment
\* whose transcription failed.
C16_TranscriptionFailedNotAppended ==
    /\ [][(spc = "transcribing" /\ spc' = "idle" /\ oresult[1].tag = "Err") =>
             /\ sresult'[1].tag = "Err"
             /\ sresult'[1].error.tag = "TranscriptionFailed"
             /\ segments' = segments
             /\ current_session_id' = current_session_id
             /\ current_session_id' # << >>
             /\ failed_seq' = Len(segments) + 1]_vars
    /\ [][(failed_seq # 0 /\ Len(segments') = Len(segments) + 1) =>
             segments'[Len(segments')].sequence_number = failed_seq]_vars
    /\ []((CommandReturned("add_segment") /\ sresult[1].tag = "Err"
              /\ sresult[1].error.tag = "TranscriptionFailed") =>
             /\ segments = slast.pre_segments
             /\ current_session_id = slast.pre_id
             /\ current_session_id # << >>)

\* the second add_segment of a session failed and the third was stored as
\* segment 2
C16_Witness ==
    /\ CommandReturned("add_segment")
    /\ sresult[1].tag = "Ok"
    /\ Len(segments) = 2
    /\ segments[2].id = segments[1].id + 2
    /\ segments[2].sequence_number = 2

\* add_segment has just returned TranscriptionFailed with the rate-limit reason
C16_WitnessFailed ==
    /\ CommandReturned("add_segment")
    /\ sresult[1].tag = "Err"
    /\ sresult[1].error.tag = "TranscriptionFailed"
    /\ sresult[1].error.reason.msg = "Groq rate limit reached. Please wait and try again."
    /\ failed_seq = 1

----------------------------------------------------------------------------
(* Properties of add_segment at its limits *)

\* the last command is an add_segment call on an active session
AddOnActive == slast.op = "add_segment" /\ slast.pre_id # << >>

\* the last add_segment call has returned the error named tag
Refused(tag) ==
    /\ CommandReturned("add_segment")
    /\ sresult[1].tag = "Err"
    /\ sresult[1].error.tag = tag

\* the quotient samples / (sample_rate x channels) exists
HasQuotient(a) == a.sample_rate > 0 /\ a.channels > 0

\* effective duration (hundredths of a second): the cached duration if it
\* exceeds 0.05 s, samples / (sample_rate x channels) otherwise
EffectiveDuration(a) ==
    IF a.duration_secs > 5
    THEN a.duration_secs
    ELSE (a.len * 100) \div (a.sample_rate * a.channels)

HasEffectiveDuration(a) == a.duration_secs > 5 \/ HasQuotient(a)

\* C13: a session never holds more than 100 segments; add_segment called on a
\* session that holds 100 segments returns SegmentLimitReached { max: 100 }
\* without calling the orchestrator, also when the buffer is longer than 59.0 s.
C13_SegmentLimit ==
    /\ Len(segments) <= 100
    /\ (AddOnActive /\ Len(slast.pre_segments) >= 100) =>
          /\ spc = "idle"
          /\ sresult = Some(Error([tag |-> "SegmentLimitReached", max |-> 100]))
          /\ calls = slast.pre_calls
          /\ opc = "idle"
          /\ segments = slast.pre_segments

\* a buffer of 59.01 s offered to a session holding 100 segments
C13_Witness ==
    /\ Refused("SegmentLimitReached")
    /\ Len(segments) = 100
    /\ HasEffectiveDuration(Unwrap(slast.audio))
    /\ EffectiveDuration(Unwrap(slast.audio)) = 5901

\* the hundredth segment was stored
C13_WitnessHundredth ==
    /\ CommandReturned("add_segment")
    /\ sresult[1].tag = "Ok"
    /\ Len(slast.pre_segments) = 99
    /\ Len(segments) = 100

\* C14: on an active session below the segment limit, add_segment rejects a
\* buffer with SegmentTooLong exactly when its effective duration is greater
\* than 59.0 s: 59.0 s is accepted, 59.01 s is rejected; an accepted buffer's
\* segment carries the effective duration, and every stored segment has
\* duration_secs <= 59.0.
C14_DurationBoundary ==
    /\ \A i \in DOMAIN segments : segments[i].duration_secs <= 5900
    /\ (AddOnActive /\ Len(slast.pre_segments) < 100
           /\ HasEffectiveDuration(Unwrap(slast.audio))) =>
          LET effective == EffectiveDuration(Unwrap(slast.audio))
          IN  /\ effective > 5900 <=> Refused("SegmentTooLong")
              /\ effective > 5900 =>
                    sresult = Some(Error([tag |-> "SegmentTooLong",
                                          duration |-> effective, max |-> 5900]))
              /\ (CommandReturned("add_segment") /\ sresult[1].tag = "Ok") =>
                    segments[Len(segments)].duration_secs = effective

\* 59.0 s of samples with no cached duration were accepted and stored
C14_Witness ==
    /\ CommandReturned("add_segment")
    /\ sresult[1].tag = "Ok"
    /\ Unwrap(slast.audio).duration_secs = 0
    /\ segments[Len(segments)].duration_secs = 5900

\* 59.01 s were rejected, cached or not
C14_WitnessRejected ==
    /\ Refused("SegmentTooLong")
    /\ sresult[1].error.duration = 5901
    /\ Unwrap(slast.audio).duration_secs <= 5

\* 60 s of samples with a cached duration of 0.06 s were accepted
C14_WitnessCached ==
    /\ CommandReturned("add_segment")
    /\ sresult[1].tag = "Ok"
    /\ Unwrap(slast.audio).duration_secs = 6
    /\ Unwrap(slast.audio).len = 960000

\* C15: add_segment on an active session that holds 100 segments, or with a
\* buffer whose effective duration is greater than 59.0 s, returns
\* SegmentLimitReached or SegmentTooLong at once; the step that returns either
\* error leaves the session id, the segments with their transcripts, the
\* breakers and the metrics as they were, calls no orchestrator, and the
\* session is still active.
C15_RejectionLeavesSession ==
    /\ []((AddOnActive
             /\ \/ Len(slast.pre_segments) >= 100
                \/ /\ HasEffectiveDuration(Unwrap(slast.audio))
                   /\ EffectiveDuration(Unwrap(slast.audio)) > 5900) =>
            /\ Refused("SegmentLimitReached") \/ Refused("SegmentTooLong")
            /\ current_session_id = slast.pre_id
            /\ segments = slast.pre_segments
            /\ calls = slast.pre_calls
            /\ opc = "idle")
    /\ [][(/\ sops' = sops + 1
           /\ sresult' # << >>
           /\ sresult'[1].tag = "Err"
           /\ sresult'[1].error.tag \in {"SegmentTooLong", "SegmentLimitReached"}) =>
             /\ UNCHANGED <<current_session_id, segments, circuit_breakers, metrics,
                            calls, opc, ocaller, pending>>
             /\ current_session_id # << >>]_vars

\* a 59.01 s buffer was rejected in a session that holds a transcribed segment,
\* after the provider had failed once
C15_Witness ==
    /\ Refused("SegmentTooLong")
    /\ segments # << >>
    /\ Unwrap(segments[Len(segments)].transcript).provider = "Groq"
    /\ get_failure_count(metrics, "groq") >= 1

C15_WitnessLimit ==
    /\ Refused("SegmentLimitReached")
    /\ HasEffectiveDuration(Unwrap(slast.audio))
    /\ EffectiveDuration(Unwrap(slast.audio)) <= 5900

\* the last add_segment call was not refused before its segment was created
Admitted ==
    /\ AddOnActive
    /\ ~Refused("SegmentLimitReached")
    /\ ~Refused("SegmentTooLong")

\* C17: an admitted segment is silence-gated exactly when the gate is enabled
\* and rms < 0.0015, peak < 0.010 and speech_ratio < 0.015; it is then stored
\* with the transcript (empty text, confidence 0, provider "SilenceGate"),
\* which is returned, and the orchestrator is not called, so no breaker and no
\* metrics counter changes; every other admitted segment goes to the
\* orchestrator.
C17_SilenceGate ==
    /\ [](Admitted =>
            LET a == Unwrap(slast.audio)
                gated == /\ slast.gate
                         /\ a.rms < 15
                         /\ a.peak < 100
                         /\ a.speech_ratio < 150
                silent == [text |-> << >>, confidence |-> 0, provider |-> "SilenceGate"]
            IN  /\ gated =>
                      /\ spc = "idle"
                      /\ calls = slast.pre_calls
                      /\ Len(segments) = Len(slast.pre_segments) + 1
                      /\ SubSeq(segments, 1, Len(slast.pre_segments)) = slast.pre_segments
                      /\ segments[Len(segments)].transcript = << silent >>
                      /\ sresult = Some(Ok([segment_id |-> segments[Len(segments)].id,
                                            transcript |-> silent, is_final |-> FALSE]))
                /\ ~gated =>
                      calls = IF spc = "awaiting_orchestrator"
                              THEN slast.pre_calls ELSE slast.pre_calls + 1)
    /\ [][(/\ sops' = sops + 1
           /\ slast'.op = "add_segment"
           /\ sresult' # << >>
           /\ sresult'[1].tag = "Ok") =>
             /\ UNCHANGED <<circuit_breakers, metrics, calls, opc, ocaller>>
             /\ Unwrap(segments'[Len(segments')].transcript).provider = "SilenceGate"]_vars

\* a buffer just below the three thresholds was gated
C17_Witness ==
    /\ CommandReturned("add_segment")
    /\ slast.gate
    /\ Unwrap(slast.audio).rms = 14
    /\ Unwrap(slast.audio).peak = 99
    /\ Unwrap(slast.audio).speech_ratio = 149
    /\ Unwrap(segments[Len(segments)].transcript).provider = "SilenceGate"
    /\ calls = 0

\* with the gate enabled, a buffer whose peak is at the threshold went to the
\* orchestrator
C17_WitnessThreshold ==
    /\ Admitted
    /\ slast.gate
    /\ Unwrap(slast.audio).peak = 100
    /\ Unwrap(slast.audio).rms = 14
    /\ calls = slast.pre_calls + 1

\* with the gate disabled, a buffer without samples went to the orchestrator
C17_WitnessDisabled ==
    /\ Admitted
    /\ ~slast.gate
    /\ Unwrap(slast.audio).len = 0
    /\ calls = slast.pre_calls + 1

----------------------------------------------------------------------------
(* Properties of the stitched text *)

HasEmptyText(g) == Unwrap(g.transcript).text = << >>
IsSilenceGated(g) == Unwrap(g.transcript).provider = "SilenceGate"

\* segs without its segments of empty text
WithoutEmpty(segs) == SelectSeq(segs, LAMBDA g : ~HasEmptyText(g))

\* C18: segments with an empty text, silence-gated ones among them, add
\* nothing to the stitched output: stitching the stored segments gives the
\* text that stitching them without the empty ones gives, overlap trimming
\* between the segments around an empty one included; this is the text
\* finalize_session and get_progress return; and finalize_session lists
\* "SilenceGate" in providers_used whenever a silence-gated segment is stored.
C18_SilentSegmentsAddNothing ==
    /\ \A i \in DOMAIN segments : IsSilenceGated(segments[i]) => HasEmptyText(segments[i])
    /\ stitch_transcripts(segments) = stitch_transcripts(WithoutEmpty(segments))
    /\ (CommandReturned("finalize_session") /\ sresult[1].tag = "Ok") =>
          /\ Ok(sresult[1].value.full_text) = stitch_transcripts(WithoutEmpty(slast.pre_segments))
          /\ (\E i \in DOMAIN slast.pre_segments : IsSilenceGated(slast.pre_segments[i]))
                => \E k \in DOMAIN sresult[1].value.providers_used :
                      sresult[1].value.providers_used[k] = "SilenceGate"
    /\ CommandReturned("get_progress") =>
          Ok(sresult[1].value.current_text) = stitch_transcripts(WithoutEmpty(slast.pre_segments))

\* "pedir um", a silence-gated segment, "um cafe.": the repeated word is
\* trimmed across the silent segment
C18_Witness ==
    /\ CommandReturned("finalize_session")
    /\ sresult[1].tag = "Ok"
    /\ Len(slast.pre_segments) = 3
    /\ IsSilenceGated(slast.pre_segments[2])
    /\ sresult[1].value.full_text
          = << "P", "e", "d", "i", "r", " ", "u", "m", " ", "c", "a", "f", "e", "." >>
    /\ sresult[1].value.providers_used = << "Groq", "SilenceGate" >>

\* a session of silence-gated segments only
C18_WitnessAllSilent ==
    /\ CommandReturned("get_progress")
    /\ Len(segments) = 2
    /\ \A i \in DOMAIN segments : IsSilenceGated(segments[i])
    /\ sresult[1].value.current_text = << >>

----------------------------------------------------------------------------
(* Properties of the commands running concurrently *)

\* c runs under the session guard
InSession(c) ==
    \/ cpc[c].at = "in_session"
    \/ /\ cpc[c].cmd = "add_audio_segment"
       /\ cpc[c].at \in {"awaiting_orchestrator", "locked_orchestrator", "in_transcribe"}

\* c runs under the orchestrator guard
HoldsOrchestrator(c) == cpc[c].at \in {"locked_orchestrator", "in_transcribe"}

InTranscribe(c) == cpc[c].at = "in_transcribe"

\* C19: add_audio_segment calls are serialized by the session lock: while one
\* call is between acquiring the lock and returning, its orchestrator call
\* included, it holds the lock and no other session command runs; the session
\* is read and written only in steps of the call holding the lock; the stored
\* segments are in the order in which their calls acquired the lock, their
\* sequence numbers follow that order, and the text get_session_progress
\* returns is stitched in that order.
C19_SessionLockSerializes ==
    /\ [](/\ Cardinality({ c \in Clients : InSession(c) }) <= 1
          /\ \A c \in Clients : InSession(c) => session_lock = c
          /\ spc # "idle" =>
                \E c \in Clients : InSession(c) /\ cpc[c].cmd = "add_audio_segment"
          /\ Len(appended_by) = Len(segments)
          /\ \A i, j \in DOMAIN segments :
                i < j => /\ appended_by[i] < appended_by[j]
                         /\ segments[i].sequence_number < segments[j].sequence_number
                         /\ segments[i].id < segments[j].id
          /\ \A c \in Clients :
                (InSession(c) /\ spc # "idle") => cpc[c].ord > 0 /\
                    \A i \in DOMAIN appended_by : appended_by[i] < cpc[c].ord
          /\ CommandReturned("get_progress") =>
                Ok(sresult[1].value.current_text) = stitch_transcripts(segments))
    /\ [][(\/ segments' # segments
            \/ current_session_id' # current_session_id
            \/ uuid_next' # uuid_next
            \/ pending' # pending
            \/ spc' # spc
            \/ sops' # sops) =>
             /\ session_lock # "none"
             /\ InSession(session_lock)
             /\ cpc'[session_lock] # cpc[session_lock]
             /\ \A c \in Clients \ {session_lock} : cpc'[c] = cpc[c]]_vars
    /\ [][\A c \in Clients :
             (InSession(c) /\ InSession(c)') =>
                 /\ session_lock' = c
                 /\ cpc'[c].ord = cpc[c].ord]_vars

\* two add_audio_segment calls were in flight together, the second awaiting
\* the session lock while the first was in its orchestrator call; both segments
\* are stored, the first caller's first
C19_Witness ==
    /\ Len(segments) = 2
    /\ appended_by = << 1, 2 >>
    /\ invoked = 2
    /\ Unwrap(segments[1].transcript).provider = "Groq"
    /\ \A c \in Clients : cpc[c].at = "idle"

\* a second add_audio_segment call awaits the session lock while the first is
\* in its orchestrator call
C19_WitnessWaiting ==
    \E c, d \in Clients :
        /\ c # d
        /\ cpc[c].cmd = "add_audio_segment" /\ InTranscribe(c)
        /\ cpc[d].cmd = "add_audio_segment" /\ cpc[d].at = "awaiting_session"
        /\ opc = "attempting"

\* C20: the orchestrator mutex is held from before transcribe is entered until
\* it has returned, whoever calls it (transcribe_audio or add_audio_segment):
\* at most one client is in transcribe, it holds the lock, and the one adapter
\* call in flight is its own; breakers and metrics change only in steps of the
\* client that holds the lock.
C20_OrchestratorLockHeld ==
    /\ [](/\ Cardinality({ c \in Clients : HoldsOrchestrator(c) }) <= 1
          /\ \A c \in Clients : HoldsOrchestrator(c) => orch_lock = c
          /\ Cardinality({ c \in Clients : InTranscribe(c) }) <= 1
          /\ opc # "idle" <=> \E c \in Clients : InTranscribe(c)
          /\ \A c \in Clients :
                InTranscribe(c) =>
                   ocaller = IF cpc[c].cmd = "add_audio_segment"
                             THEN "add_segment" ELSE "transcribe_audio")
    /\ [][(opc # "idle" /\ opc' # "idle") => (orch_lock # "none" /\ orch_lock' = orch_lock)]_vars
    /\ [][(circuit_breakers' # circuit_breakers \/ metrics' # metrics
              \/ attempt_log' # attempt_log \/ opc' # opc) =>
             /\ orch_lock # "none"
             /\ HoldsOrchestrator(orch_lock)
             /\ \A c \in Clients \ {orch_lock} : cpc'[c] = cpc[c]]_vars

\* transcribe_audio awaits the orchestrator lock while add_audio_segment is
\* in transcribe, and a second add_audio_segment awaits the session lock
C20_Witness ==
    \E c, d, e \in Clients :
        /\ cpc[c].cmd = "add_audio_segment" /\ InTranscribe(c)
        /\ cpc[d].cmd = "transcribe_audio" /\ cpc[d].at = "awaiting_orchestrator"
        /\ cpc[e].cmd = "add_audio_segment" /\ cpc[e].at = "awaiting_session"
        /\ opc = "attempting"
        /\ get_failure_count(metrics, "groq") = 1

\* add_audio_segment, holding the session lock, awaits the orchestrator lock
\* while transcribe_audio is in transcribe
C20_WitnessSessionWaits ==
    \E c, d \in Clients :
        /\ cpc[c].cmd = "transcribe_audio" /\ InTranscribe(c)
        /\ cpc[d].cmd = "add_audio_segment" /\ cpc[d].at = "awaiting_orchestrator"
        /\ session_lock = d

\* the orchestrator was replaced after a failure had been recorded
C20_WitnessReplaced ==
    /\ calls >= 1
    /\ get_failure_count(metrics, "groq") = 0
    /\ get_success_count(metrics, "groq") = 0
    /\ opc = "idle"
    /\ \A c \in Clients : cpc[c].at = "idle"
    /\ segments = << >>

----------------------------------------------------------------------------
(* Properties of map_orchestrator_error *)

\* map_orchestrator_error has returned for an AllProvidersFailed list
MappedAllFailed ==
    /\ IsSome(returned)
    /\ argument.fn = "map_orchestrator_error"
    /\ argument.arg.tag = "AllProvidersFailed"

HasKind(errors, kind) == \E k \in DOMAIN errors : errors[k][2].kind = kind

EntryText(entry) == << entry[1], ": " >> \o display(entry[2])

\* the entries' texts with " | " between them
RECURSIVE Concatenation(_)
Concatenation(errors) ==
    IF Len(errors) = 1 THEN EntryText(errors[1])
    ELSE Concatenation(SubSeq(errors, 1, Len(errors) - 1))
            \o << " | " >> \o EntryText(errors[Len(errors)])

AuthenticationMessage == "Groq authentication failed. Check if your API key is valid."
RateLimitMessage == "Groq rate limit reached. Please wait and try again."
TimeoutMessage == "Groq request timed out. Check your connection and try again."
FailedMessage == "Groq transcription failed. "

\* C21: the reason map_orchestrator_error gives for AllProvidersFailed is
\* chosen by precedence over the whole list: the authentication message if any
\* entry is AuthenticationError, else the rate-limit message if any is
\* RateLimitError, else the timeout message if any is TimeoutError, else
\* "Groq transcription failed. " followed by the `provider: error` entries in
\* list order joined by " | " (breaker-open and low-confidence entries are
\* ProviderErrors and fall in this last case); the three fixed messages are the
\* same for every order of the same entries.
C21_ReasonByPrecedence ==
    MappedAllFailed =>
       LET errors == argument.arg.errors
           reason == Unwrap(returned)
       IN  /\ HasKind(errors, "AuthenticationError") =>
                  reason = Reason(AuthenticationMessage, << >>)
           /\ (~HasKind(errors, "AuthenticationError") /\ HasKind(errors, "RateLimitError")) =>
                  reason = Reason(RateLimitMessage, << >>)
           /\ (/\ ~HasKind(errors, "AuthenticationError")
               /\ ~HasKind(errors, "RateLimitError")
               /\ HasKind(errors, "TimeoutError")) =>
                  reason = Reason(TimeoutMessage, << >>)
           /\ (\A kind \in {"AuthenticationError", "RateLimitError", "TimeoutError"} :
                  ~HasKind(errors, kind)) =>
                  reason = Reason(FailedMessage, Concatenation(errors))
           /\ \A p \in Permutations(DOMAIN errors) :
                  LET other == map_orchestrator_error(
                                   AllProvidersFailed([k \in DOMAIN errors |-> errors[p[k]]]))
                  IN  /\ other.msg = reason.msg
                      /\ reason.msg # FailedMessage => other = reason

\* a timeout, then a rate limit, then an authentication failure: the
\* authentication message, although it comes last
C21_Witness ==
    /\ MappedAllFailed
    /\ argument.arg.errors = << << "groq", TimeoutError >>, << "groq", RateLimitError >>,
                                    << "elevenlabs", AuthenticationError >> >>
    /\ Unwrap(returned).msg = AuthenticationMessage

\* an open breaker and a low confidence: the joined entries
C21_WitnessJoined ==
    /\ MappedAllFailed
    /\ argument.arg.errors = << << "groq", BreakerOpenError >>,
                                    << "elevenlabs", LowConfidenceError >> >>
    /\ Unwrap(returned).details
          = << "groq", ": ", "Provider error: ", "Circuit breaker open", " | ",
               "elevenlabs", ": ", "Provider error: ", "Low confidence" >>

----------------------------------------------------------------------------
(* Properties of stitch_transcripts and normalize_text *)

\* stitch_transcripts has returned for a list of n segments
Stitched(n) ==
    /\ argument.fn = "stitch_transcripts"
    /\ IsSome(returned)
    /\ Len(argument.arg) = n

WordsOf(segment) == split_whitespace(Unwrap(segment.transcript).text)

\* the last n words of w1 are the first n words of w2, whatever their case
TailIsHead(w1, w2, n) ==
    /\ n <= Len(w1) /\ n <= Len(w2)
    /\ \A k \in 1..n : to_lowercase(w1[Len(w1) - n + k]) = to_lowercase(w2[k])

Overlaps(w1, w2) == { n \in 1..3 : TailIsHead(w1, w2, n) }

Largest(S) == CHOOSE n \in S : \A m \in S : m <= n

\* C22: no segments stitch to the empty string; and when the last n words of
\* the first of two segments are, case-insensitively, the first n words of the
\* second for some n in 1..3, the stitched text is the normalized text of the
\* first segment's words followed by the second segment's words without its
\* first n, for the largest such n: one copy of the overlap is omitted and the
\* one kept is the first segment's.
C22_StitchingLaws ==
    /\ Stitched(0) => returned = Some(Ok(<< >>))
    /\ Stitched(2) =>
          LET w1 == WordsOf(argument.arg[1])
              w2 == WordsOf(argument.arg[2])
              ov == Overlaps(w1, w2)
          IN  ov # {} =>
                LET n == Largest(ov)
                    out == Unwrap(returned)
                IN  /\ out = Ok(normalize_text(
                                   join_words(w1 \o SubSeq(w2, n + 1, Len(w2)))))
                    /\ Len(split_whitespace(out.value)) = Len(w1) + Len(w2) - n
                    /\ LET kept == split_whitespace(out.value)
                       IN  \A k \in 2..Len(w1) : kept[k] = w1[k]

\* "b a a" and "A a b": one and two words overlap, two are dropped and the
\* first segment's "a a" is kept
C22_Witness ==
    /\ Stitched(2)
    /\ Overlaps(WordsOf(argument.arg[1]), WordsOf(argument.arg[2])) = {1, 2}
    /\ Unwrap(returned) = Ok(<< "B", " ", "a", " ", "a", " ", "b" >>)

\* no segments
C22_WitnessEmpty ==
    /\ Stitched(0)
    /\ Unwrap(returned) = Ok(<< >>)

\* normalize_text has returned
Normalized == argument.fn = "normalize_text" /\ IsSome(returned)

\* C23: normalize_text is idempotent, normalizing its result gives the result
\* again; and a single segment whose text is already normalized stitches to
\* exactly that text.
C23_NormalizationIdempotent ==
    /\ Normalized => normalize_text(Unwrap(returned)) = Unwrap(returned)
    /\ Stitched(1) =>
          LET text == Unwrap(argument.arg[1].transcript).text
          IN  normalize_text(text) = text => Unwrap(returned) = Ok(text)

\* "a", a tab and ".a" are normalized to "A. A"
C23_Witness ==
    /\ Normalized
    /\ argument.arg = << "a", "\t", ".", "a" >>
    /\ Unwrap(returned) = << "A", ".", " ", "A" >>

\* a single segment with the normalized text "A. A"
C23_WitnessSingleSegment ==
    /\ Stitched(1)
    /\ Unwrap(argument.arg[1].transcript).text = << "A", ".", " ", "A" >>
    /\ Unwrap(returned) = Ok(<< "A", ".", " ", "A" >>)

\* stitch_transcripts has returned for the segments "gostaria de pedir um" and
\* "um café por favor"
StitchedExample ==
    /\ Stitched(2)
    /\ argument.arg = StoredSegments(OverlapExample)

\* C24 as stated: the two segments stitch to "Gostaria de pedir um café por
\* favor." with a full stop at the end.
C24_StitchedWithFullStop ==
    StitchedExample =>
       Unwrap(returned) =
          Ok(<< "G", "o", "s", "t", "a", "r", "i", "a", " ", "d", "e", " ", "p", "e", "d",
                "i", "r", " ", "u", "m", " ", "c", "a", "f", "é", " ", "p", "o", "r", " ",
                "f", "a", "v", "o", "r", "." >>)

\* C24, amended: the two segments "gostaria de pedir um" and "um café por
\* favor" stitch to "Gostaria de pedir um café por favor": a single "um", the
\* first letter capitalized, and no full stop added at the end.
C24_OverlapExample ==
    StitchedExample =>
       /\ Unwrap(returned) =
             Ok(<< "G", "o", "s", "t", "a", "r", "i", "a", " ", "d", "e", " ", "p", "e", "d",
                   "i", "r", " ", "u", "m", " ", "c", "a", "f", "é", " ", "p", "o", "r", " ",
                   "f", "a", "v", "o", "r" >>)
       /\ detect_overlap(WordsOf(argument.arg[1]), WordsOf(argument.arg[2])) = 1

\* the example has been stitched
C24_Witness ==
    /\ StitchedExample
    /\ Unwrap(returned).tag = "Ok"
    /\ Len(split_whitespace(Unwrap(returned).value)) = 7

----------------------------------------------------------------------------
(* Properties of the adapters' to_wav_bytes *)

\* an adapter's to_wav_bytes has returned
Encoded ==
    /\ argument.fn \in {"GroqAdapter::to_wav_bytes", "ElevenLabsAdapter::to_wav_bytes"}
    /\ IsSome(returned)

RECURSIVE TotalBytes(_)
TotalBytes(header) ==
    IF header = << >> THEN 0 ELSE header[1].bytes + TotalBytes(Tail(header))

Declared(header, name) ==
    (CHOOSE k \in DOMAIN header : header[k].name = name)

\* C25: for every buffer with samples, of any sample rate and channel count,
\* the WAV payload either remote adapter builds has a 44-byte header that
\* declares 16 kHz, 1 channel and 16 bits per sample; a buffer without samples
\* makes encoding fail with InvalidAudio.
C25_CanonicalUpload ==
    Encoded =>
       IF argument.arg.len = 0
       THEN Unwrap(returned) = Error(InvalidAudio)
       ELSE /\ Unwrap(returned).tag = "Ok"
            /\ LET header == Unwrap(returned).value.header
               IN  /\ TotalBytes(header) = 44
                   /\ header[Declared(header, "sample_rate")].value = 16000
                   /\ header[Declared(header, "channels")].value = 1
                   /\ header[Declared(header, "bits_per_sample")].value = 16

----------------------------------------------------------------------------
(* Properties of AudioBuffer, AudioCapture and AudioRecorder *)

\* duration_secs, in hundredths of a second, is len / (sample_rate x channels)
Consistent(buffer) ==
    buffer.duration_secs * (buffer.sample_rate * buffer.channels) = buffer.len * 100

\* the last call was op and returned Ok
AudioReturnedOk(op) == alast.op = op /\ alast.result.tag = "Ok"

\* the last call was a start_recording that got as far as resetting the buffer
StartReset ==
    /\ alast.op = "start_recording"
    /\ ~alast.pre.is_recording
    /\ Unwrap(alast.device).outcome \notin {"no_device", "config_error"}

\* C26: the capture buffer's cached duration is always its number of samples
\* divided by sample_rate x channels, whatever appends and clears it went
\* through: it is 0 with no samples after a clear (stop_recording, and the
\* start that overwrites sample_rate and channels and then clears), and the
\* buffer stop_recording returns is consistent too.
C26_DurationConsistent ==
    /\ [](LET buffer == recorder.capture.buffer
          IN  /\ buffer.sample_rate > 0 /\ buffer.channels > 0
              /\ Consistent(buffer)
              /\ AudioReturnedOk("stop_recording") =>
                    /\ buffer.len = 0 /\ buffer.duration_secs = 0
                    /\ Consistent(alast.result.value)
                    /\ alast.result.value = alast.pre.capture.buffer
              /\ StartReset =>
                    /\ buffer.sample_rate = Unwrap(alast.device).sample_rate
                    /\ buffer.channels = Unwrap(alast.device).channels)
    /\ [][(aops' # aops /\ StartReset') =>
              /\ recorder'.capture.buffer.len = 0
              /\ recorder'.capture.buffer.duration_secs = 0]_vars

\* a second recording, at 48 kHz stereo after one at 16 kHz mono that had
\* filled the buffer: 9600 samples are a tenth of a second
C26_Witness ==
    /\ aops = 3
    /\ AudioReturnedOk("start_recording")
    /\ alast.pre.capture.buffer.sample_rate = 16000
    /\ recorder.capture.buffer.sample_rate = 48000
    /\ recorder.capture.buffer.channels = 2
    /\ recorder.capture.buffer.len = 9600
    /\ recorder.capture.buffer.duration_secs = 10

\* stop_recording returned a buffer of 0.9 s and left the capture's own empty
C26_WitnessCleared ==
    /\ AudioReturnedOk("stop_recording")
    /\ alast.result.value.len = 14400
    /\ alast.result.value.duration_secs = 90
    /\ recorder.capture.buffer.len = 0

\* the last call was op and failed with the message
AudioRefused(op, message) ==
    /\ alast.op = op
    /\ alast.result.tag = "Err"
    /\ alast.result.error = message

\* C27: the recorder is Idle or Recording, and it is Recording exactly when
\* its capture holds a stream; start_recording on a Recording recorder fails
\* with "Already recording" and stop_recording on an Idle one with "Not
\* recording", both leaving the flags, the stream and the buffer as they were;
\* a start that succeeds goes from Idle to Recording and a stop that succeeds
\* from Recording to Idle; the streams alive are the one the capture holds, so
\* never more than one.
C27_CaptureStateMachine ==
    /\ [](/\ recorder.is_recording = recorder.capture.is_recording
          /\ recorder.capture.is_recording = (recorder.capture.stream # None)
          /\ streams = { recorder.capture.stream[k] : k \in DOMAIN recorder.capture.stream }
          /\ Cardinality(streams) <= 1
          /\ (alast.op = "start_recording" /\ alast.pre.is_recording) =>
                AudioRefused("start_recording", "Already recording")
          /\ (alast.op = "stop_recording" /\ ~alast.pre.is_recording) =>
                AudioRefused("stop_recording", "Not recording")
          /\ AudioReturnedOk("start_recording") => ~alast.pre.is_recording
          /\ AudioReturnedOk("stop_recording") => alast.pre.is_recording)
    /\ [][aops' # aops =>
            /\ (AudioRefused("start_recording", "Already recording")'
                   \/ AudioRefused("stop_recording", "Not recording")') =>
                  (recorder' = recorder /\ streams' = streams)
            /\ AudioReturnedOk("start_recording")' =>
                  (~recorder.is_recording /\ recorder'.is_recording)
            /\ AudioReturnedOk("stop_recording")' =>
                  (recorder.is_recording /\ ~recorder'.is_recording)]_vars

\* start_recording refused on a recorder that has recorded 0.3 s
C27_Witness ==
    /\ AudioRefused("start_recording", "Already recording")
    /\ recorder.is_recording
    /\ recorder.capture.buffer.len = 4800
    /\ streams = {1}

\* stop_recording refused after a recording was started and stopped
C27_WitnessNotRecording ==
    /\ AudioRefused("stop_recording", "Not recording")
    /\ aops = 3
    /\ stream_next = 2
    /\ streams = {}

\* a stream that was built and could not be played: the recorder stays Idle
C27_WitnessPlayFailed ==
    /\ alast.op = "start_recording"
    /\ alast.result.tag = "Err"
    /\ stream_next = 2
    /\ ~recorder.is_recording
    /\ streams = {}

\* the attempt the last call returned is the fallback no_target_window
NoTargetWindow == plast.attempt = Some(fallback(<<"no_target_window">>))

\* the call before the last was a capture_target given the handle of the
\* window that was in the foreground
CapturedOwnWindow ==
    /\ plast.before.op = "capture_target"
    /\ plast.before.foreground = plast.before.zentra_window

SingleShot ==
    /\ plast.op = "try_auto_paste" => paste_context.target_hwnd = None
    /\ (plast.op = "try_auto_paste" /\ plast.before.op = "try_auto_paste") =>
          NoTargetWindow
    /\ (plast.op = "try_auto_paste" /\ CapturedOwnWindow) => NoTargetWindow

\* C28 as stated: after try_auto_paste the target is cleared, and a
\* try_auto_paste that follows another try_auto_paste, or a capture_target
\* that ran with the application's own window in the foreground, returns
\* pasted = false with the reason no_target_window.
C28_SingleShot == SingleShot

\* C28 for the Windows build: after try_auto_paste the target is cleared, and
\* a try_auto_paste that follows another try_auto_paste, or a capture_target
\* that ran with the application's own window in the foreground, returns
\* pasted = false with the reason no_target_window.
C28_SingleShotWindows == target_os = "windows" => SingleShot

\* a target was captured, the first attempt pasted, the second found no target
C28_Witness ==
    /\ target_os = "windows"
    /\ pops = 3
    /\ plast.op = "try_auto_paste"
    /\ plast.before.op = "try_auto_paste"
    /\ plast.before.attempt = Some(PasteAttemptPasted)
    /\ NoTargetWindow

\* capture_target ran with the application's window in the foreground
C28_WitnessOwnWindow ==
    /\ target_os = "windows"
    /\ plast.op = "try_auto_paste"
    /\ CapturedOwnWindow
    /\ plast.before.foreground = ZentraWindow
    /\ NoTargetWindow

\* the step is the command op, from its call to its return
CommandStep(op) == sops' # sops /\ CommandReturned(op)'

\* C29: get_progress leaves the session id and the segments, transcripts
\* included, as they were, so the session stays active or absent as it was; a
\* finalize_session that succeeds right after it returns as full_text the
\* current_text get_progress returned, for the same segments; and of the two
\* only finalize_session clears: a session loses its id, or segments while it
\* keeps its id, only in a finalize_session that succeeds.
C29_ProgressLeavesSession ==
    /\ [][CommandStep("get_progress") =>
            /\ current_session_id' = current_session_id
            /\ segments' = segments
            /\ sresult'[1].tag = "Ok"
            /\ sresult'[1].value.segment_count = Len(segments)]_vars
    /\ [][(/\ CommandReturned("get_progress")
           /\ CommandStep("finalize_session")
           /\ sresult'[1].tag = "Ok") =>
            /\ slast'.pre_segments = slast.pre_segments
            /\ sresult'[1].value.full_text = sresult[1].value.current_text]_vars
    /\ [][(\/ current_session_id # None /\ current_session_id' = None
           \/ /\ current_session_id' = current_session_id
              /\ Len(segments') < Len(segments)) =>
            /\ CommandStep("finalize_session")
            /\ sresult'[1].tag = "Ok"
            /\ current_session_id' = None
            /\ segments' = << >>]_vars

\* get_progress returned the stitched text of a session of two segments
C29_Witness ==
    /\ CommandReturned("get_progress")
    /\ current_session_id # None
    /\ Len(segments) = 2
    /\ sresult[1].value.current_text # << >>

\* the u64 whose value is 2^n, for n < 64
PowerOfTwo(n) ==
    [i \in 1..8 |-> IF i - 1 = n \div 8 THEN 2 ^ (n % 8) ELSE 0]

\* C30: the delay slept before retry k, after the k + 1 failed attempts, is
\* 2 x 2^k seconds, that is 2^(k + 1): exactly that as long as it fits a u64
\* (k + 1 < 64), the largest u64 from there on, and never less than 1 s.
C30_ExactBackoff ==
    (argument.fn = "wait_before_retry" /\ IsSome(returned)) =>
        LET k == argument.arg
            slept == Unwrap(returned)
        IN  /\ k + 1 < 64 => slept = PowerOfTwo(k + 1)
            /\ k < 30 => as_secs(slept) = 2 * 2 ^ k
            /\ k + 1 >= 64 => slept = U64_MAX
            /\ u64_less(slept, u64(1), 8) = FALSE

\* the delay before the retry where 2 x 2^63 no longer fits
C30_Witness ==
    /\ argument = Call("wait_before_retry", 63)
    /\ returned = Some(U64_MAX)

\* 16 s before the fourth retry
C30_WitnessExact ==
    /\ argument = Call("wait_before_retry", 3)
    /\ IsSome(returned)
    /\ as_secs(Unwrap(returned)) = 16

\* the loop of stitch_transcripts has processed its p-th segment last
Processed(p) == stitching.i = p + 1 /\ Len(stitching.kept) = p

RECURSIVE Flatten(_)
\* the words of a list of word lists, in order
Flatten(lists) == IF lists = << >> THEN << >> ELSE Head(lists) \o Flatten(Tail(lists))

RECURSIVE LastKept(_)
\* the words kept by the last segment of the list that kept any
LastKept(lists) ==
    IF lists = << >> THEN << >>
    ELSE IF lists[Len(lists)] # << >> THEN lists[Len(lists)]
    ELSE LastKept(SubSeq(lists, 1, Len(lists) - 1))

\* the largest n in 1..3 for which the last n of previous are the first n of
\* current, whatever their case, and 0 when there is none
OverlapOf(previous, current) ==
    IF Overlaps(previous, current) = {} THEN 0 ELSE Largest(Overlaps(previous, current))

\* C31 as stated: for every segment beyond the first, the words dropped from
\* its head are the largest overlap of the last words emitted so far, by all
\* the segments before it, with its first words.
C31_OverlapWithEmitted ==
    \A p \in 2..3 :
        Processed(p) =>
            LET emitted == Flatten(SubSeq(stitching.kept, 1, p - 1))
            IN  /\ stitching.overlap_size = OverlapOf(emitted, stitching.all_words)
                /\ stitching.kept[p] = SubSeq(stitching.all_words,
                                              stitching.overlap_size + 1,
                                              Len(stitching.all_words))

\* C31 with the words the code compares: for every segment beyond the first,
\* the words dropped from its head are the largest overlap of its first words
\* with the last words, up to 3, that the latest earlier segment to keep any
\* word kept after its own trimming.
C31_OverlapWithLastKept ==
    \A p \in 2..3 :
        Processed(p) =>
            LET previous == LastN(LastKept(SubSeq(stitching.kept, 1, p - 1)), 3)
            IN  /\ stitching.overlap_size = OverlapOf(previous, stitching.all_words)
                /\ stitching.kept[p] = SubSeq(stitching.all_words,
                                              stitching.overlap_size + 1,
                                              Len(stitching.all_words))

\* "a", "b" and "a b": the second segment kept one word, the words emitted end
\* with "a b" and the third segment loses nothing
C31_Witness ==
    /\ Processed(3)
    /\ stitching.kept = << << <<"a">> >>, << <<"b">> >>, << <<"a">>, <<"b">> >> >>
    /\ stitching.overlap_size = 0

\* three words of the third segment are dropped
C31_WitnessThree ==
    /\ Processed(3)
    /\ stitching.overlap_size = 3

\* C32 as stated: after every segment previous_words holds the last 3 words
\* of that segment after trimming, also when it has none.
C32_TailOfCurrentSegment ==
    \A p \in 1..3 :
        Processed(p) => stitching.previous_words = LastN(stitching.kept[p], 3)

\* C32 for what the code does: after a segment that keeps some word
\* previous_words holds its last 3 words after trimming; after a segment that
\* keeps none, its text empty or its words all trimmed, previous_words is what
\* it was before the segment.
C32_TailOfLastKept ==
    \A p \in 1..3 :
        Processed(p) =>
            /\ stitching.kept[p] # << >> =>
                  stitching.previous_words = LastN(stitching.kept[p], 3)
            /\ stitching.kept[p] = << >> =>
                  stitching.previous_words = stitching.tail_before
            /\ stitching.previous_words =
                  LastN(LastKept(SubSeq(stitching.kept, 1, p)), 3)

\* the words of the second segment were all trimmed and the tail is still the
\* first segment's
C32_Witness ==
    /\ Processed(2)
    /\ stitching.all_words # << >>
    /\ stitching.kept[2] = << >>
    /\ stitching.previous_words = stitching.kept[1]
    /\ Len(stitching.previous_words) = 3

\* the text of the second segment is empty
C32_WitnessEmptyText ==
    /\ Processed(2)
    /\ stitching.all_words = << >>
    /\ stitching.previous_words # << >>

----------------------------------------------------------------------------
(* C33 *)

\* the chunks are those of one stream, numbered in the order they arrived
InArrivalOrder(samples, stream) ==
    \A k \in DOMAIN samples : samples[k].stream = stream /\ samples[k].n = k

\* C33: whatever way the callback's appends interleave with start and stop,
\* a stop that succeeds returns exactly the chunks appended since the start
\* it matches, in the order they arrived, and leaves the shared buffer empty
\* with duration 0; a start empties the buffer before its stream opens, so
\* the buffer of a recording holds no chunk of an earlier recording's stream.
C33_StopReturnsRecording ==
    /\ [](LET buffer == recorder.capture.buffer
          IN  /\ AudioReturnedOk("stop_recording") =>
                    /\ alast.result.value.samples = arrived
                    /\ InArrivalOrder(alast.result.value.samples,
                                      Unwrap(alast.pre.capture.stream))
                    /\ buffer.samples = << >>
                    /\ buffer.len = 0
                    /\ buffer.duration_secs = 0
              /\ recorder.is_recording =>
                    /\ buffer.samples = arrived
                    /\ InArrivalOrder(buffer.samples, Unwrap(recorder.capture.stream))
              /\ ~recorder.is_recording => buffer.samples = << >>)
    /\ [][(aops' # aops /\ StartReset') =>
              recorder'.capture.buffer.samples = << >>]_vars

\* the second recording's stop returned its own two chunks, in order, after a
\* first recording whose stop had returned one chunk
C33_Witness ==
    /\ aops = 4
    /\ AudioReturnedOk("stop_recording")
    /\ alast.result.value.samples = << Chunk(2, 1, 4800), Chunk(2, 2, 9600) >>
    /\ recorder.capture.buffer.samples = << >>

\* a second recording's buffer, one chunk in, after a first recording that
\* had appended two
C33_WitnessLater ==
    /\ aops = 3
    /\ AudioReturnedOk("start_recording")
    /\ alast.pre.capture.buffer.samples = << >>
    /\ stream_next = 3
    /\ recorder.capture.buffer.samples = << Chunk(2, 1, 4800) >>

----------------------------------------------------------------------------
(* C34 *)

Running == { t \in DOMAIN tasks : tasks[t] = "running" }

\* the handles a task can still be reached by: the slot, and the local of a
\* start_audio_level_loop between its spawn and its store
Held ==
    { audio_level_task[k] : k \in DOMAIN audio_level_task }
        \cup { command.handle[k] : k \in DOMAIN command.handle }

\* C34: emitter tasks do not pile up. Whatever recording commands were run,
\* once they have returned at most one emitter task is left running, and it
\* is the one in audio_level_task; at every step a running task is one that
\* is stored or about to be, and the task a start stores is the only one
\* running; after a stop command with no start after it, no emitter task
\* runs, the slot is empty and the flag is down.
C34_EmittersDoNotAccumulate ==
    /\ [](/\ Running \subseteq Held
          /\ Idle =>
                /\ Cardinality(Running) <= 1
                /\ Running \subseteq { audio_level_task[k] : k \in DOMAIN audio_level_task }
          /\ (Idle /\ command.op \in {"stop_recording", "stop_mic_monitor"}) =>
                /\ Running = {}
                /\ audio_level_task = None
                /\ ~audio_level_flag)
    /\ [][StoreTask => Running' = { audio_level_task'[k] : k \in DOMAIN audio_level_task' }]_vars

\* the third start stored its task, the only one running, after two stops
\* aborted those of the starts before
C34_Witness ==
    /\ Idle
    /\ command.op = "start_recording"
    /\ tasks = << "aborted", "aborted", "running" >>
    /\ audio_level_task = Some(3)
    /\ audio_level_flag

\* a stop after a start: the task was aborted and the slot is empty
C34_WitnessStopped ==
    /\ Idle
    /\ command.op = "stop_mic_monitor"
    /\ tasks = << "aborted" >>
    /\ audio_level_task = None

\* an emitter that found the flag down and ended before the stop aborted it
C34_WitnessEnded ==
    /\ Idle
    /\ command.op = "stop_recording"
    /\ tasks = << "finished" >>
    /\ alast.result.tag = "Ok"

----------------------------------------------------------------------------
(* C35 *)

RECURSIVE AttemptBudget(_)
\* the sum of max_retries + 1 over the first n providers
AttemptBudget(n) ==
    IF n = 0 THEN 0 ELSE AttemptBudget(n - 1) + providers[n].max_retries + 1

\* the call has returned a transcript or AllProvidersFailed
ReturnedTranscriptOrAllFailed ==
    /\ oresult # None
    /\ \/ Unwrap(oresult).tag = "Ok"
       \/ /\ Unwrap(oresult).tag = "Err"
          /\ Unwrap(oresult).error.tag = "AllProvidersFailed"

\* a transcribe call whose adapter calls all return, or are cut off by the
\* timeout, returns after making at most the sum over its providers of
\* max_retries + 1 adapter calls
Terminates ==
    /\ (opc = "attempting") ~> (opc = "done")
    /\ (opc = "done") ~> (opc = "idle")
    /\ [](Len(attempt_log) <= AttemptBudget(Len(providers)))

\* C35 as it was claimed: every call returns a transcript or AllProvidersFailed
C35_TranscriptOrAllFailed ==
    /\ Terminates
    /\ [](opc = "done" => ReturnedTranscriptOrAllFailed)

\* C35: transcribe always terminates: with every adapter call returning or
\* being cut off by the timeout, a call over n providers makes at most the sum
\* over the providers of max_retries + 1 adapter calls and then returns a
\* transcript or AllProvidersFailed, or NoProvidersAvailable when n = 0.
C35_Terminates ==
    /\ Terminates
    /\ [](opc = "done" =>
            IF providers = << >>
            THEN oresult = Some(Error(NoProvidersAvailable)) /\ attempt_log = << >>
            ELSE ReturnedTranscriptOrAllFailed)

\* a call over two providers that used its whole budget of three adapter
\* calls and returned AllProvidersFailed
C35_Witness ==
    /\ opc = "done"
    /\ Len(providers) = 2
    /\ Len(attempt_log) = 3
    /\ AttemptBudget(Len(providers)) = 3
    /\ Unwrap(oresult).tag = "Err"
    /\ Unwrap(oresult).error.tag = "AllProvidersFailed"

\* a call over no provider returned NoProvidersAvailable
C35_WitnessNoProviders ==
    /\ opc = "done"
    /\ providers = << >>
    /\ oresult = Some(Error(NoProvidersAvailable))

\* a call cut off by the timeout on its only attempt that went on to return
C35_WitnessTimeout ==
    /\ opc = "done"
    /\ Len(attempt_log) = 1
    /\ attempt_log[1].result = Error(TimeoutError)

----------------------------------------------------------------------------
(* C36 *)

\* client c, holding the orchestrator guard, replaces the orchestrator
Replaces(c) ==
    /\ cpc[c].cmd = "update_settings"
    /\ cpc[c].at = "locked_orchestrator"
    /\ cpc'[c].at = "idle"

\* C36: a change of the runtime configuration replaces the orchestrator
\* under the orchestrator lock. The replacement waits for the lock while a
\* transcribe call is in progress, so it never takes effect in the middle of
\* one; right after it every provider has a breaker that is Closed with
\* failure_count 0 and no last failure, and every metrics counter is 0; the
\* session id and the stored segments are as they were; and an add_segment
\* that calls transcribe afterwards starts from the orchestrator that is
\* there then.
C36_ReplacedUnderLock ==
    /\ [](\A c \in Clients :
            (cpc[c].cmd = "update_settings" /\ cpc[c].at = "locked_orchestrator") =>
                /\ orch_lock = c
                /\ opc = "idle"
                /\ \A d \in Clients : ~InTranscribe(d))
    /\ [][\A c \in Clients :
            Replaces(c) =>
                /\ opc' = "idle"
                /\ orch_lock' = "none"
                /\ DOMAIN circuit_breakers' = ProviderIds(providers')
                /\ \A id \in DOMAIN circuit_breakers' :
                      /\ circuit_breakers'[id].state = Closed
                      /\ circuit_breakers'[id].failure_count = 0
                      /\ circuit_breakers'[id].last_failure_time = None
                /\ \A id \in ProviderIds(providers') :
                      /\ get_success_count(metrics', id) = 0
                      /\ get_failure_count(metrics', id) = 0
                /\ metrics' = MetricsNew
                /\ current_session_id' = current_session_id
                /\ segments' = segments]_vars
    /\ [][(circuit_breakers' # circuit_breakers /\ opc = "idle" /\ opc' = "idle") =>
            \E c \in Clients : Replaces(c)]_vars
    /\ [][(ocaller = "none" /\ ocaller' = "add_segment") =>
            /\ cb0' = circuit_breakers
            /\ metrics0' = metrics]_vars

\* an add_segment in its adapter call on the orchestrator that replaced the
\* one a first transcribe call had been counted on: no counter, no failure
C36_Witness ==
    \E c \in Clients :
        /\ cpc[c].cmd = "add_audio_segment" /\ InTranscribe(c)
        /\ opc = "attempting"
        /\ calls = 2
        /\ metrics = MetricsNew
        /\ circuit_breakers["groq"] = CircuitBreakerNew
        /\ current_session_id # None

\* the replacement waits for the lock while transcribe_audio is in transcribe
C36_WitnessWaits ==
    \E c, d \in Clients :
        /\ cpc[c].cmd = "update_settings" /\ cpc[c].at = "awaiting_orchestrator"
        /\ cpc[d].cmd = "transcribe_audio" /\ InTranscribe(d)
        /\ opc = "attempting"

\* the orchestrator right after a replacement that dropped the counters of
\* the one transcribe call made before it
C36_WitnessReplaced ==
    /\ calls = 1
    /\ opc = "idle"
    /\ orch_lock = "none"
    /\ \A c \in Clients : cpc[c].at = "idle"
    /\ metrics = MetricsNew
    /\ invoked = 2
    /\ segments = << >>

----------------------------------------------------------------------------
(* C37 *)

Groq == circuit_breakers["groq"]

\* the step records a failure on Groq's breaker
GroqFails == get_failure_count(metrics', "groq") = get_failure_count(metrics, "groq") + 1

\* Groq's breaker is HalfOpen and the probe it admitted has not returned
ProbePending == Groq.state = HalfOpen /\ Groq.failure_count = TRIP_THRESHOLD

\* C37: under the orchestrator no failure is recorded on an Open breaker, so
\* the probe admitted in HalfOpen comes at least cooldown after the last
\* failure; when it fails, record_failure sets failure_count to 1 and the
\* state stays HalfOpen. A HalfOpen breaker's provider is attempted by every
\* call, and the breaker leaves HalfOpen only by a success, which closes it,
\* or by the failure that takes failure_count to 3 within trip_window of the
\* one before, which opens it.
C37_FailedProbeStaysHalfOpen ==
    /\ [](ProbePending => now - Unwrap(Groq.last_failure_time) >= COOLDOWN)
    /\ [][Groq.state.tag = "Open" =>
            (Groq' = Groq \/ Groq' = [Groq EXCEPT !.state = HalfOpen])]_vars
    /\ [][(ProbePending /\ GroqFails) =>
            (Groq'.state = HalfOpen /\ Groq'.failure_count = 1)]_vars
    /\ [][(Groq.state = HalfOpen /\ opc = "idle" /\ opc' # "idle") =>
            (opc' = "attempting" /\ providers[idx'].id = "groq" /\ skipped' = {})]_vars
    /\ [][(Groq.state = HalfOpen /\ Groq'.state # HalfOpen) =>
            \/ Groq' = CircuitBreakerNew
            \/ /\ GroqFails
               /\ Groq' = [state |-> Open(now), failure_count |-> TRIP_THRESHOLD,
                           last_failure_time |-> Some(now)]
               /\ Groq.failure_count = TRIP_THRESHOLD - 1
               /\ now - Unwrap(Groq.last_failure_time) <= TRIP_WINDOW]_vars

\* the probe failed: HalfOpen with one failure, and the call went on to
\* Whisper.cpp
C37_Witness ==
    /\ Groq = [state |-> HalfOpen, failure_count |-> 1, last_failure_time |-> Some(COOLDOWN)]
    /\ calls = 1
    /\ opc = "attempting"
    /\ providers[idx].id = "whisper"

\* the call after the failed probe is in Groq's adapter again
C37_WitnessAttemptedAgain ==
    /\ Groq.state = HalfOpen
    /\ Groq.failure_count = 1
    /\ calls = 2
    /\ opc = "attempting"
    /\ providers[idx].id = "groq"

\* three failures from the probe on, within trip_window of each other, opened
\* the breaker again
C37_WitnessReopened ==
    /\ Groq.state.tag = "Open"
    /\ Groq.state.tripped_at > 0
    /\ calls = 3

\* a success after the failed probe closed the breaker
C37_WitnessClosed ==
    /\ Groq = CircuitBreakerNew
    /\ calls = 2
    /\ get_success_count(metrics, "groq") = 1

----------------------------------------------------------------------------
(* C38 *)

\* C38: in every state of a breaker driven by the orchestrator, a Closed
\* breaker has failure_count at most 2, an Open breaker has failure_count at
\* least 3 and last_failure_time equal to tripped_at, and failure_count is 0
\* exactly when last_failure_time is absent.
C38_BreakerInvariants ==
    \A id \in DOMAIN circuit_breakers :
        LET cb == circuit_breakers[id]
        IN  /\ cb.state = Closed => cb.failure_count <= TRIP_THRESHOLD - 1
            /\ cb.state.tag = "Open" =>
                  /\ cb.failure_count >= TRIP_THRESHOLD
                  /\ cb.last_failure_time = Some(cb.state.tripped_at)
            /\ cb.failure_count = 0 <=> cb.last_failure_time = None

\* one provider's breaker is Open on its third failure, at time 300, while
\* another's is Closed with two failures
C38_Witness ==
    \E id, other \in DOMAIN circuit_breakers :
        /\ circuit_breakers[id] =
              [state |-> Open(TRIP_WINDOW), failure_count |-> TRIP_THRESHOLD,
               last_failure_time |-> Some(TRIP_WINDOW)]
        /\ circuit_breakers[other].state = Closed
        /\ circuit_breakers[other].failure_count = TRIP_THRESHOLD - 1

\* a breaker closed again by a success after failures: no count, no last failure
C38_WitnessSuccess ==
    \E id \in DOMAIN circuit_breakers :
        /\ circuit_breakers[id] = CircuitBreakerNew
        /\ get_failure_count(metrics, id) = 2
        /\ get_success_count(metrics, id) = 1

\* a HalfOpen breaker whose probe is in flight still has the count that
\* opened it
C38_WitnessHalfOpen ==
    \E id \in DOMAIN circuit_breakers :
        /\ circuit_breakers[id].state = HalfOpen
        /\ circuit_breakers[id].failure_count = TRIP_THRESHOLD
        /\ opc = "attempting"

----------------------------------------------------------------------------
(* C39 *)

\* the result is one of the failures an adapter raises on the audio itself
InputFailure(r) == r.tag = "Err" /\ r.error \in {InvalidAudio, AudioTooLong}

\* the provider in turn returns from its adapter call in this step
AdapterReturns == opc = "attempting" /\ Len(attempt_log') = Len(attempt_log) + 1

\* the call in progress made an adapter call on provider i
Invoked(i) == \E k \in DOMAIN attempt_log : attempt_log[k].provider = i

\* the call in progress skipped provider i with "Circuit breaker open"
SkippedOpen(i) ==
    /\ \E s \in skipped : s.provider = i
    /\ \E k \in DOMAIN all_errors : all_errors[k] = << providers[i].id, BreakerOpenError >>

\* the audio of the call in progress has samples and is within Groq's limit
ValidAudio ==
    /\ argument.fn = "transcribe_audio"
    /\ argument.arg.len > 0
    /\ effective_duration_secs(argument.arg) <= MAX_DURATION_SECS

\* what an adapter makes of the audio: an empty sample array is InvalidAudio,
\* or AudioTooLong for Groq when the buffer says more than 59 s
RefusedOnInput ==
    \A k \in DOMAIN attempt_log :
        LET p == providers[attempt_log[k].provider]
            r == attempt_log[k].result
            too_long == /\ p.adapter.name = "Groq"
                        /\ effective_duration_secs(argument.arg) > MAX_DURATION_SECS
        IN  /\ too_long => r = Error(AudioTooLong)
            /\ argument.arg.len = 0 /\ ~too_long => r = Error(InvalidAudio)

\* a failure on the input is a failure of the provider: not retried, listed
\* under the provider's id, counted in its metrics and by its breaker, which
\* the third failure within trip_window opens
CountedByBreaker ==
    AdapterReturns /\ InputFailure(attempt_log'[Len(attempt_log')].result) =>
        LET p == providers[idx]
            cb == circuit_breakers[p.id]
            recent == /\ IsSome(cb.last_failure_time)
                      /\ now - Unwrap(cb.last_failure_time) <= TRIP_WINDOW
            e == attempt_log'[Len(attempt_log')].result.error
        IN  /\ opc' = "done" \/ idx' > idx
            /\ \E k \in DOMAIN all_errors' : all_errors'[k] = << p.id, e >>
            /\ opc' = "done" => oresult' = Some(Error(AllProvidersFailed(all_errors')))
            /\ get_failure_count(metrics', p.id) = get_failure_count(metrics, p.id) + 1
            /\ circuit_breakers'[p.id].failure_count =
                  IF recent THEN cb.failure_count + 1 ELSE 1
            /\ circuit_breakers'[p.id].last_failure_time = Some(now)
            /\ recent /\ cb.failure_count = TRIP_THRESHOLD - 1
                  => circuit_breakers'[p.id].state = Open(now)

\* a call with valid audio, entered while the breaker is Open and before
\* cooldown has elapsed, does not call the provider's adapter: it skips the
\* provider when its loop comes to it
SkippedWhileOpen ==
    \A i \in DOMAIN providers :
        LET cb == cb0[providers[i].id]
        IN  /\ opc # "idle"
            /\ ValidAudio
            /\ cb.state.tag = "Open"
            /\ now - cb.state.tripped_at < COOLDOWN
            => /\ ~Invoked(i)
               /\ idx >= i => SkippedOpen(i)

\* C39: a failure caused by the input (InvalidAudio for an empty sample
\* array, AudioTooLong) is surfaced as a failure of the provider and counted
\* by its breaker like any other: the third such call within trip_window
\* opens the breaker, and a call with valid audio made before cooldown has
\* elapsed skips the provider with "Circuit breaker open" without calling
\* its adapter.
C39_InputFailuresTrip ==
    /\ [](RefusedOnInput /\ SkippedWhileOpen)
    /\ [][CountedByBreaker]_vars

\* the fourth call, with one second of speech, at the time of three calls
\* with audio Groq refused: Groq is skipped and ElevenLabs answers
C39_Witness ==
    /\ calls = 4 /\ now = 0 /\ opc = "done"
    /\ ValidAudio
    /\ cb0["groq"] = Tripped
    /\ get_failure_count(metrics, "groq") = 3
    /\ SkippedOpen(1) /\ ~Invoked(1)
    /\ Invoked(2)
    /\ Unwrap(oresult).tag = "Ok"

\* the third call with an empty recording returns: both breakers are Open
C39_WitnessInvalid ==
    /\ calls = 3 /\ opc = "done"
    /\ argument.arg.len = 0
    /\ oresult = Some(Error(AllProvidersFailed(
                    << << "groq", InvalidAudio >>, << "elevenlabs", InvalidAudio >> >>)))
    /\ circuit_breakers["groq"].state = Open(now)
    /\ circuit_breakers["elevenlabs"].state = Open(now)

\* the third call with a minute of audio returns ElevenLabs' transcript:
\* Groq's breaker is Open, ElevenLabs' is Closed
C39_WitnessTooLong ==
    /\ calls = 3 /\ opc = "done"
    /\ argument.arg.len > 0
    /\ attempt_log[1].result = Error(AudioTooLong)
    /\ circuit_breakers["groq"].state = Open(now)
    /\ circuit_breakers["elevenlabs"] = CircuitBreakerNew
    /\ Unwrap(oresult).tag = "Ok"

----------------------------------------------------------------------------
(* C40 *)

\* c waits for a mutex that d holds
WaitsFor(c, d) ==
    \/ cpc[c].at = "awaiting_session" /\ session_lock = d
    \/ cpc[c].at = "awaiting_orchestrator" /\ orch_lock = d

\* each mutex is held by the one command that is under its guard, and a
\* command under the session guard alone finds the session ready for it
MutualExclusion ==
    \A c \in Clients :
        /\ cpc[c].at = "in_session" => spc = "idle" /\ sops < MaxSessionOps
        /\ InSession(c) <=> session_lock = c
        /\ HoldsOrchestrator(c) <=> orch_lock = c

\* no command waits, directly or through others, for a mutex it holds itself
\* or for a command that waits for it
NoWaitCycle ==
    /\ \A c \in Clients : ~WaitsFor(c, c)
    /\ \A c, d \in Clients : ~(WaitsFor(c, d) /\ WaitsFor(d, c))
    /\ \A c, d, e \in Clients : ~(WaitsFor(c, d) /\ WaitsFor(d, e) /\ WaitsFor(e, c))

\* while a command is in flight some command can take its next step
SomeCommandProceeds ==
    (\E c \in Clients : cpc[c].at # "idle") =>
        \E c \in Clients :
            \/ cpc[c].at = "in_session" /\ spc = "idle" /\ sops < MaxSessionOps
            \/ ENABLED (\/ LockSession(c)
                        \/ LockOrchestrator(c)
                        \/ UseOrchestrator(c)
                        \/ ClientAttemptReturns(c)
                        \/ ReturnFromTranscribe(c))

\* the session mutex is acquired by a command that holds no mutex; the
\* orchestrator mutex is acquired alone by transcribe_audio and by the
\* configuration update, and under the session guard by add_audio_segment
AcquiredInOrder ==
    \A c \in Clients :
        /\ session_lock' = c /\ session_lock # c =>
              /\ orch_lock # c
              /\ cpc[c].cmd \in SessionLockCommands
        /\ orch_lock' = c /\ orch_lock # c =>
              IF session_lock = c
              THEN cpc[c].cmd = "add_audio_segment"
              ELSE cpc[c].cmd \in {"transcribe_audio", "update_settings"}

\* every command invoked returns
EveryCommandReturns ==
    \A c \in Clients : (cpc[c].at # "idle") ~> (cpc[c].at = "idle")

\* C40: the lock order is acyclic: the orchestrator lock is acquired either
\* alone (transcribe_audio, replacement of the runtime configuration) or
\* under the session lock (add_segment), never the session lock under the
\* orchestrator lock; so no interleaving of add_audio_segment,
\* finalize_recording_session, get_session_progress, start_recording_session,
\* transcribe_audio and configuration updates deadlocks, and each command
\* returns in the end, given that every adapter attempt returns or times out.
C40_DeadlockFree ==
    /\ [](MutualExclusion /\ NoWaitCycle /\ SomeCommandProceeds)
    /\ [][AcquiredInOrder]_vars
    /\ EveryCommandReturns

\* add_audio_segment is in transcribe under both guards while a second
\* command waits for the session mutex and a configuration update for the
\* orchestrator mutex
C40_Witness ==
    \E c, d, e \in Clients :
        /\ cpc[c].cmd = "add_audio_segment" /\ cpc[c].at = "in_transcribe"
        /\ session_lock = c /\ orch_lock = c
        /\ cpc[d].cmd = "finalize_recording_session" /\ WaitsFor(d, c)
        /\ cpc[e].cmd = "update_settings" /\ WaitsFor(e, c)

\* add_audio_segment, under the session guard, waits for the orchestrator
\* mutex that transcribe_audio holds, and start_recording_session for the
\* session mutex
C40_WitnessWaitsUnderGuard ==
    \E c, d, e \in Clients :
        /\ cpc[c].cmd = "add_audio_segment" /\ session_lock = c
        /\ WaitsFor(c, d)
        /\ cpc[d].cmd = "transcribe_audio" /\ cpc[d].at = "in_transcribe"
        /\ cpc[e].cmd = "start_recording_session" /\ WaitsFor(e, c)

\* every command invoked has returned, a stored segment among their results
C40_WitnessReturned ==
    /\ invoked = MaxLockInvocations
    /\ \A c \in Clients : cpc[c].at = "idle"
    /\ Len(segments) = 1

====
